---- MODULE Spec2Model ----
(***************************************************************************)
(* A model of the go-ha automation runtime: entity-listener registration,  *)
(* App.Start (state_changed subscription, RunOnStartup pass, main loop),   *)
(* the WebSocket reader, entity-listener dispatch with its delay timers    *)
(* and throttle, App.Close / App.Cleanup, and the schedule and interval    *)
(* run loops.                                                              *)
(*                                                                         *)
(* Time is a clock of abstract ticks; a day is DayLen ticks and an "HH:MM" *)
(* string is the tick of the day it names.  The empty string "" of a       *)
(* time-of-day option is the empty sequence, a set one is <<tick>>.        *)
(***************************************************************************)
EXTENDS Integers, Sequences, FiniteSets, TLC

\* ------------------------------------------------------------------ bounds
MaxTime == 3
MaxMsgs == 2
MaxListeners == 1
MaxCloses == 2
MaxFrames == 3
ChanCap == 2
DelayD == 2
ThrottleT == 2
DayLen == 4
MaxSchedules == 1
SecPerMin == 2
MinPerHour == 2
HoursPerDay == 3
TrigDays == 2
MaxIter == 3
MaxBuilderCalls == 3
MaxBuilds == 2
MaxWrites == 2
MaxIdCalls == 2
MaxEventListeners == 2
MaxRequests == 2
MaxIntervals == 1
SunTick == 1
Horizon == 2

\* lastRan of a fresh listener: carbon.Now().StartOfCentury(), far in the past
StartOfCentury == -1000
\* the greatest time.Duration, on the scale of the trigger clock
MaxDuration == 30

EventTypes == {"zha_event", "call_service"}
Entities == {"a", "b"}
States == {"on", "off"}

VARIABLES
    now,               \* wall clock, in ticks
    appConn,           \* app.conn: "nil", "open" or "closed"
    appCancel,         \* app.ctxCancel: "nil" or "set"
    ctxDone,           \* app.ctx is cancelled
    listener,          \* the EntityListener objects, by listener id
    entityListeners,   \* app.entityListeners: entity id -> list of listener ids
    registerPanics,    \* RegisterEntityListeners calls that panicked with ErrInvalidArgs
    nextId,            \* internal.id, the process-wide message id counter
    entityListenersId, \* app.entityListenersId
    startPc,           \* position of App.Start
    startupTodo,       \* entity ids the RunOnStartup pass has still to visit
    startupCur,        \* <<eid, idx>> being visited by the RunOnStartup pass, or <<>>
    readerPc,          \* ListenWebsocket: "idle", "running", or returned: "failed", "full"
    serverFrames,      \* frames the server sends in this run
    framesRead,        \* frames the reader has taken off the socket
    received,          \* history: the decoded messages, in the order the reader pushed them
    elChan,            \* the buffered channel elChan: indexes into received
    chanCloses,        \* number of close(c) executed on elChan
    tasks,             \* running dispatch goroutines
    finished,          \* history: messages whose dispatch goroutine has returned
    timers,            \* the time.AfterFunc timers created so far
    calls,             \* history: callback goroutines started
    closePc,           \* position of the running App.Close call
    closeCalls,        \* number of App.Close calls begun
    closeRet,          \* results of the App.Close calls returned so far
    closePanic,        \* an App.Close call panicked
    schedules,         \* app.schedules: the items in the priority queue
    intervals,         \* app.intervals: the items in the priority queue
    registerHung,      \* a Register call is in a loop it never leaves
    schedRun,          \* the runSchedules goroutine: its place, the item it holds
                       \* and the parity of the turns of its catch-up loop
    intvRun,           \* the runIntervals goroutine: the same
    ran,               \* the callback goroutines the run loops have started
    schedPassed,       \* history: the schedules passed to RegisterSchedules
    processDown,       \* a panic no goroutine recovered has ended the process
    callbackPanicked,  \* history: a callback goroutine has panicked
    eventListeners,    \* app.eventListeners: event type -> list of listeners
    subFrames,         \* history: the subscribe_events frames RegisterEventListeners wrote
    issued,            \* history: the service and fire-event requests built
    regCall,           \* the RegisterEventListeners call under way: the listener,
                       \* the event types still to do and the id it has taken
    startId,           \* the local `id` of Start
    trigger,           \* the scheduling.Trigger under call
    trigNow,           \* the time its first NextTime call is given
    trigCalls,         \* history: the NextTime calls made, [now, next]
    builder,           \* the DailyScheduleBuilder: errors, hashes, triggers, and
                       \* (history) the trigger its last call made, if any
    built,             \* history: what the Build calls returned
    handshake,         \* the ConnectionFromUri call: its place, the server's
                       \* script, what was read and sent, and what it returned
    writePath,         \* the goroutines in HAConnection.WriteMessage, the mutex
                       \* and the bytes on the wire
    idCalls,           \* the goroutines calling internal.NextId and what they got
    rangeCall,         \* the CheckWithinTimeRange call: arguments and result
    entityCall,        \* the CheckEnabledEntity/CheckDisabledEntity call
    listenCall,        \* ListenWebsocket alone: the frames of the connection,
                       \* the reader's position and the channel
    evalCall           \* one evaluation of a run loop alone: the item, the state
                       \* fetches, and what maybeRunCallback and the re-queue did

vars == <<now, appConn, appCancel, ctxDone, listener, entityListeners, registerPanics,
          nextId, entityListenersId, startPc, startupTodo, startupCur, readerPc,
          serverFrames, framesRead, received, elChan, chanCloses, tasks, finished, timers, calls,
          closePc, closeCalls, closeRet, closePanic,
          schedules, intervals, registerHung, schedRun, intvRun, ran,
          schedPassed, processDown, callbackPanicked,
          eventListeners, subFrames, issued, regCall, startId,
          trigger, trigNow, trigCalls, builder, built,
          handshake, writePath, idCalls, rangeCall, entityCall, listenCall, evalCall>>

\* what registration leaves for the run loops, and what they have done
schedVars == <<schedules, intervals, registerHung, ran>>

\* the two run-loop goroutines
runVars == <<schedRun, intvRun>>

\* what the actions of one part of the program leave alone of the others
panicVars == <<processDown, callbackPanicked>>
eventVars == <<eventListeners, subFrames, issued, regCall, startId>>
trigVars == <<trigger, trigNow, trigCalls>>
buildVars == <<builder, built>>
pureVars == <<trigVars, buildVars>>
auxVars == <<handshake, writePath, idCalls, rangeCall, entityCall, listenCall, evalCall>>
extVars == <<schedPassed, panicVars, eventVars, pureVars, auxVars>>

\* ----------------------------------------------------------------- helpers
Abs(x) == IF x < 0 THEN -x ELSE x

DayStart(t) == t - (t % DayLen)

DayOf(t) == t \div DayLen

\* internal.ParseTime: today at HH:MM
ParseTime(s, t) == DayStart(t) + s[1]

\* ------------------------------------------------------ condition evaluator
\* Each Check operator is the value of cc.fail.

CheckWithinTimeRange(startTime, endTime, t) ==
    IF startTime # <<>> /\ endTime # <<>>
    THEN LET ps0 == ParseTime(startTime, t)
             pe0 == ParseTime(endTime, t)
             pe == IF pe0 < ps0 /\ pe0 < t THEN pe0 + DayLen ELSE pe0
             ps == IF pe0 < ps0 /\ ~(pe0 < t) THEN ps0 - DayLen ELSE ps0
         IN ~(ps <= t /\ t < pe)
    ELSE IF startTime # <<>> /\ ParseTime(startTime, t) > t
    THEN TRUE
    ELSE IF endTime # <<>> /\ ParseTime(endTime, t) < t
    THEN TRUE
    ELSE FALSE

CheckStatesMatch(listenerState, s) ==
    listenerState # "" /\ listenerState # s

ThrottleNeverHolds(throttle, lastRan, t) == FALSE

\* CheckThrottle: a throttle is set and has not passed since lastRan
CheckThrottle(throttle, lastRan, t) ==
    throttle > 0 /\ Abs(t - lastRan) < throttle

CheckExceptionDates(eList, t) ==
    \E i \in 1..Len(eList) : DayOf(eList[i]) = DayOf(t)

CheckExceptionRanges(eList, t) ==
    \E i \in 1..Len(eList) : t > eList[i].Start /\ t < eList[i].End

EnabledIgnoringErrors(answers, infos) ==
    \E k \in 1..Len(infos) : answers[k] # "ERR" /\ answers[k] # infos[k].State

\* What one `s.Equals(edi.Entity, edi.State)` request finds: the state of the
\* entity at that moment, or "ERR" when the REST request fails.
Answers == States \cup {"ERR"}

\* The answers to the requests of one call, one for each entry of the list:
\* the k-th is what the request for the k-th entry finds, if the loop gets
\* that far.
RECURSIVE AnswerSeqs(_)
AnswerSeqs(n) ==
    IF n = 0 THEN {<<>>}
    ELSE {Append(sq, a) : sq \in AnswerSeqs(n - 1), a \in Answers}

RECURSIVE CheckEnabledEntity(_, _)
CheckEnabledEntity(answers, infos) ==
    IF Len(infos) = 0 THEN FALSE
    ELSE LET edi == Head(infos)
         IN IF Head(answers) = "ERR"
            THEN IF edi.RunOnError THEN CheckEnabledEntity(Tail(answers), Tail(infos))
                 ELSE TRUE
            ELSE IF Head(answers) # edi.State THEN TRUE
            ELSE CheckEnabledEntity(Tail(answers), Tail(infos))

RECURSIVE CheckDisabledEntity(_, _)
CheckDisabledEntity(answers, infos) ==
    IF Len(infos) = 0 THEN FALSE
    ELSE LET edi == Head(infos)
         IN IF Head(answers) = "ERR"
            THEN IF edi.RunOnError THEN CheckDisabledEntity(Tail(answers), Tail(infos))
                 ELSE TRUE
            ELSE IF Head(answers) = edi.State THEN TRUE
            ELSE CheckDisabledEntity(Tail(answers), Tail(infos))

\* ------------------------------------------------------- entity listeners
\* NewEntityListener(): the zero EntityListener with lastRan at the start of
\* the century.  delayTimer 0 is the nil *time.Timer.
NewEntityListener ==
    [entityIds |-> <<>>, fromState |-> "", toState |-> "", throttle |-> 0,
     lastRan |-> StartOfCentury, betweenStart |-> <<>>, betweenEnd |-> <<>>,
     delay |-> 0, delayTimer |-> 0, exceptionDates |-> <<>>, exceptionRanges |-> <<>>,
     runOnStartup |-> FALSE, runOnStartupCompleted |-> FALSE,
     enabledEntities |-> <<>>, disabledEntities |-> <<>>]

\* The listeners user code builds with the fluent builder.
ListenerBuilds ==
    { [NewEntityListener EXCEPT !.entityIds = <<"a">>, !.toState = "on", !.delay = DelayD],
      [NewEntityListener EXCEPT !.entityIds = <<"a">>, !.fromState = "off",
                                !.toState = "on", !.delay = DelayD],
      [NewEntityListener EXCEPT !.entityIds = <<"a", "b">>, !.throttle = ThrottleT,
                                !.runOnStartup = TRUE],
      [NewEntityListener EXCEPT !.entityIds = <<"a">>, !.toState = "on",
                                !.throttle = ThrottleT, !.delay = DelayD],
      [NewEntityListener EXCEPT !.entityIds = <<"a">>, !.toState = "on",
                                !.throttle = ThrottleT, !.delay = DelayD,
                                !.runOnStartup = TRUE],
      [NewEntityListener EXCEPT !.entityIds = <<"a">>, !.delay = DelayD],
      [NewEntityListener EXCEPT !.entityIds = <<"b", "a">>, !.toState = "on"] }

\* The listener object bound to the i-th entity id of a listener registered
\* when `base` objects exist: the copy `etl := etl` is made once per listener,
\* so every entity id shares the one object &etl.
RegisteredObject(base, i) == base + 1

\* The entries RegisterEntityListeners appends to app.entityListeners[e].
RECURSIVE BoundTo(_, _, _, _)
BoundTo(e, ids, base, i) ==
    IF i > Len(ids) THEN <<>>
    ELSE (IF ids[i] = e THEN <<RegisteredObject(base, i)>> ELSE <<>>)
         \o BoundTo(e, ids, base, i + 1)

ObjectsCreated(ids, base) ==
    Cardinality({RegisteredObject(base, i) : i \in 1..Len(ids)})

DelayAlwaysUsable(etl) == FALSE

\* `if etl.delay != 0 && etl.toState == ""`: Duration() used without ToState()
DelayWithoutToState(etl) == etl.delay # 0 /\ etl.toState = ""

\* RegisterEntityListeners(etl), one listener per call.
RegisterEntityListeners(etl) ==
    /\ startPc = "idle"
    /\ Len(listener) + registerPanics < MaxListeners
    /\ IF DelayWithoutToState(etl)
       THEN /\ registerPanics' = registerPanics + 1
            /\ UNCHANGED <<listener, entityListeners>>
       ELSE /\ listener' = listener \o
                    [k \in 1..ObjectsCreated(etl.entityIds, Len(listener)) |-> etl]
            /\ entityListeners' =
                    [e \in Entities |->
                        entityListeners[e] \o BoundTo(e, etl.entityIds, Len(listener), 1)]
            /\ UNCHANGED registerPanics
    /\ UNCHANGED <<schedVars, runVars>>
    /\ UNCHANGED extVars
    /\ UNCHANGED <<now, appConn, appCancel, ctxDone, nextId, entityListenersId, startPc,
                   startupTodo, startupCur, readerPc, serverFrames, framesRead, received, elChan,
                   chanCloses, tasks, finished, timers, calls, closePc, closeCalls,
                   closeRet, closePanic>>

\* -------------------------------------------------------- event listeners
IdKept(n) == n

\* internal.NextId, `id.Add(1)`: the counter after the call, which is the id
\* handed out
IdAfter(n) == n + 1

\* internal.NextId: id.Add(1)
NextId == IdAfter(nextId)

\* An EventListener as the builder leaves it: its event types.
EventListenerBuilds ==
    {[eventTypes |-> <<a>>] : a \in EventTypes}
    \cup {[eventTypes |-> <<a, b>>] : a \in EventTypes, b \in EventTypes}

SubscribesAgain(el, eventType) == FALSE

\* `if elList, ok := app.eventListeners[eventType]; ok`: a list is only ever
\* stored with a listener in it
AlreadySubscribed(el, eventType) == el[eventType] # <<>>

\* no RegisterEventListeners call is under way
NoReg == [pc |-> "none"]

\* the listeners in app.eventListeners
EventListenersRegistered ==
    UNION {{eventListeners[ty][k] : k \in 1..Len(eventListeners[ty])} : ty \in EventTypes}

\* `for _, eventType := range evl.eventTypes`: on to the next type, or return
RegAfter(rc) ==
    IF Len(rc.types) > 1 THEN [rc EXCEPT !.pc = "loop", !.types = Tail(@), !.id = 0]
    ELSE NoReg

\* RegisterEventListeners(evl) is called, one listener per call; evl is the
\* number of the call.
RegisterEventListeners(evl, eventTypes) ==
    /\ startPc = "idle"
    /\ ~processDown
    /\ appConn = "open"
    /\ regCall = NoReg
    /\ evl = Cardinality(EventListenersRegistered) + 1
    /\ evl <= MaxEventListeners
    /\ regCall' = [pc |-> "loop", evl |-> evl, types |-> eventTypes, id |-> 0]
    /\ UNCHANGED <<eventListeners, subFrames, issued, startId, nextId>>
    /\ UNCHANGED <<schedPassed, panicVars, pureVars, auxVars>>
    /\ UNCHANGED <<schedVars, runVars>>
    /\ UNCHANGED <<now, appConn, appCancel, ctxDone, listener, entityListeners,
                   registerPanics, entityListenersId, startPc, startupTodo,
                   startupCur, readerPc, serverFrames, framesRead, received, elChan,
                   chanCloses, tasks, finished, timers, calls, closePc, closeCalls,
                   closeRet, closePanic>>

\* The head of the loop body: the listener is appended to the list of a type
\* that has one, or SubscribeToEventType takes `finalId = internal.NextId()`.
RegisterEventType ==
    /\ ~processDown
    /\ regCall.pc = "loop"
    /\ LET eventType == Head(regCall.types)
       IN IF AlreadySubscribed(eventListeners, eventType)
          THEN /\ eventListeners' = [eventListeners EXCEPT ![eventType] = Append(@, regCall.evl)]
               /\ regCall' = RegAfter(regCall)
               /\ UNCHANGED nextId
          ELSE /\ nextId' = NextId
               /\ regCall' = [regCall EXCEPT !.pc = "write", !.id = NextId]
               /\ UNCHANGED eventListeners
    /\ UNCHANGED <<subFrames, issued, startId>>
    /\ UNCHANGED <<schedPassed, panicVars, pureVars, auxVars>>
    /\ UNCHANGED <<schedVars, runVars>>
    /\ UNCHANGED <<now, appConn, appCancel, ctxDone, listener, entityListeners,
                   registerPanics, entityListenersId, startPc, startupTodo,
                   startupCur, readerPc, serverFrames, framesRead, received, elChan,
                   chanCloses, tasks, finished, timers, calls, closePc, closeCalls,
                   closeRet, closePanic>>

\* SubscribeToEventType, `err := conn.WriteMessage(e)`: the frame is written,
\* or the write fails, as every write on a connection that is not open does,
\* and SubscribeToEventType panics.
RegisterWrite ==
    /\ ~processDown
    /\ regCall.pc = "write"
    /\ \E written \in (IF appConn = "open" THEN BOOLEAN ELSE {FALSE}) :
          IF written
          THEN /\ subFrames' = Append(subFrames, [id |-> regCall.id,
                                                   type |-> "subscribe_events",
                                                   event_type |-> Head(regCall.types)])
               /\ regCall' = [regCall EXCEPT !.pc = "store"]
               /\ UNCHANGED processDown
          ELSE /\ processDown' = TRUE
               /\ regCall' = NoReg
               /\ UNCHANGED subFrames
    /\ UNCHANGED <<eventListeners, issued, startId, nextId, callbackPanicked>>
    /\ UNCHANGED <<schedPassed, pureVars, auxVars>>
    /\ UNCHANGED <<schedVars, runVars>>
    /\ UNCHANGED <<now, appConn, appCancel, ctxDone, listener, entityListeners,
                   registerPanics, entityListenersId, startPc, startupTodo,
                   startupCur, readerPc, serverFrames, framesRead, received, elChan,
                   chanCloses, tasks, finished, timers, calls, closePc, closeCalls,
                   closeRet, closePanic>>

\* `app.eventListeners[eventType] = []*EventListener{&evl}`
RegisterStore ==
    /\ ~processDown
    /\ regCall.pc = "store"
    /\ eventListeners' = [eventListeners EXCEPT ![Head(regCall.types)] = <<regCall.evl>>]
    /\ regCall' = RegAfter(regCall)
    /\ UNCHANGED <<subFrames, issued, startId, nextId, panicVars>>
    /\ UNCHANGED <<schedPassed, pureVars, auxVars>>
    /\ UNCHANGED <<schedVars, runVars>>
    /\ UNCHANGED <<now, appConn, appCancel, ctxDone, listener, entityListeners,
                   registerPanics, entityListenersId, startPc, startupTodo,
                   startupCur, readerPc, serverFrames, framesRead, received, elChan,
                   chanCloses, tasks, finished, timers, calls, closePc, closeCalls,
                   closeRet, closePanic>>

\* ------------------------------------------------------------------- Init
\* a run loop that holds no item
NoItem == [id |-> 0]

\* no trigger is under call
NoTrigger == [kind |-> "none"]

\* NewSchedule: `hashes: make(map[uint64]bool)`, no error, no trigger
NewSchedule == [errors |-> <<>>, hashes |-> {}, triggers |-> <<>>, last |-> NoTrigger]

\* The state after construction, but for the App's connection and cancel
\* function and the number of frames the server will send, and for the
\* trigger and the builder.
InitProgram ==
    /\ ctxDone = FALSE
    /\ schedules = {}
    /\ intervals = {}
    /\ registerHung = FALSE
    /\ schedRun = [pc |-> "idle", item |-> NoItem, turn |-> 0]
    /\ intvRun = [pc |-> "idle", item |-> NoItem, turn |-> 0]
    /\ ran = {}
    /\ schedPassed = <<>>
    /\ processDown = FALSE
    /\ callbackPanicked = FALSE
    /\ eventListeners = [ty \in EventTypes |-> <<>>]
    /\ subFrames = <<>>
    /\ issued = {}
    /\ regCall = NoReg
    /\ startId = 0
    /\ listener = <<>>
    /\ entityListeners = [e \in Entities |-> <<>>]
    /\ registerPanics = 0
    /\ nextId = 0
    /\ entityListenersId = 0
    /\ startPc = "idle"
    /\ startupTodo = {}
    /\ startupCur = <<>>
    /\ readerPc = "idle"
    /\ framesRead = 0
    /\ received = <<>>
    /\ elChan = <<>>
    /\ chanCloses = 0
    /\ tasks = {}
    /\ finished = {}
    /\ timers = <<>>
    /\ calls = <<>>
    /\ closePc = "idle"
    /\ closeCalls = 0
    /\ closeRet = <<>>
    /\ closePanic = FALSE

\* no trigger is under call and no builder call was made
PureIdle ==
    /\ trigger = NoTrigger
    /\ trigNow = 0
    /\ trigCalls = <<>>
    /\ builder = NewSchedule
    /\ built = <<>>

\* no call is under way
NoCall == [pc |-> "none"]

\* the handshake is over and nothing writes, draws an id or checks a range
AuxIdle ==
    /\ handshake = NoCall
    /\ writePath = NoCall
    /\ idCalls = NoCall
    /\ rangeCall = NoCall
    /\ entityCall = NoCall
    /\ listenCall = NoCall
    /\ evalCall = NoCall

InitRest ==
    /\ InitProgram
    /\ PureIdle
    /\ AuxIdle

\* NewApp returns an App with an open connection and a cancel function.
Init ==
    /\ appConn = "open"
    /\ appCancel = "set"
    /\ serverFrames = MaxMsgs
    /\ now = 0
    /\ InitRest

\* The tests also build Apps without a connection, with a cancel function
\* or without one, to call Close and Cleanup on them.
InitLifecycle ==
    /\ appConn \in {"nil", "open"}
    /\ appCancel \in {"nil", "set"}
    /\ appConn = "open" => appCancel = "set"
    /\ serverFrames = MaxFrames
    /\ now = 0
    /\ InitRest

\* ------------------------------------------------------------- App.Start
\* The goroutines of a process are gone once a panic has ended it: the one
\* of Start on a failed subscription, or one in a callback goroutine.
Alive == startPc # "panicked" /\ ~processDown

\* Start is called on an App built by NewApp: `go runSchedules(app)`,
\* `go runIntervals(app)`.
StartBegin ==
    /\ startPc = "idle"
    /\ appConn # "nil"
    /\ appCancel # "nil"
    /\ ~registerHung
    /\ ~processDown
    /\ schedRun' = [schedRun EXCEPT !.pc = "start"]
    /\ intvRun' = [intvRun EXCEPT !.pc = "start"]
    /\ startPc' = "nextid"
    /\ UNCHANGED schedVars
    /\ UNCHANGED extVars
    /\ UNCHANGED <<now, appConn, appCancel, ctxDone, listener, entityListeners,
                   registerPanics, nextId, entityListenersId, startupTodo, startupCur,
                   readerPc, serverFrames, framesRead, received, elChan,
                   chanCloses, tasks, finished, timers, calls, closePc, closeCalls,
                   closeRet, closePanic>>

\* `id := internal.NextId()`
StartNextId ==
    /\ Alive
    /\ startPc = "nextid"
    /\ nextId' = NextId
    /\ startId' = NextId
    /\ startPc' = "subscribe"
    /\ UNCHANGED <<eventListeners, subFrames, issued, regCall>>
    /\ UNCHANGED <<schedPassed, panicVars, pureVars, auxVars>>
    /\ UNCHANGED <<schedVars, runVars>>
    /\ UNCHANGED <<now, appConn, appCancel, ctxDone, listener, entityListeners,
                   registerPanics, entityListenersId, startupTodo, startupCur,
                   readerPc, serverFrames, framesRead, received, elChan,
                   chanCloses, tasks, finished, timers, calls, closePc, closeCalls,
                   closeRet, closePanic>>

\* `connect.SubscribeToStateChangedEvents(id, app.conn, app.ctx)`, which
\* panics when the write fails, and `app.entityListenersId = id`
StartSubscribe ==
    /\ Alive
    /\ startPc = "subscribe"
    /\ \E written \in (IF appConn = "open" THEN BOOLEAN ELSE {FALSE}) :
          IF written
          THEN /\ entityListenersId' = startId
               /\ startPc' = "startup"
               /\ startupTodo' = {e \in Entities : entityListeners[e] # <<>>}
          ELSE /\ startPc' = "panicked"
               /\ UNCHANGED <<entityListenersId, startupTodo>>
    /\ UNCHANGED <<schedVars, runVars>>
    /\ UNCHANGED extVars
    /\ UNCHANGED <<now, appConn, appCancel, ctxDone, listener, entityListeners,
                   registerPanics, nextId, startupCur, readerPc, serverFrames, framesRead,
                   received, elChan, chanCloses, tasks, finished, timers, calls, closePc,
                   closeCalls, closeRet, closePanic>>

\* `for eid, etls := range app.entityListeners`: the next key, in map order
StartupNext(eid) ==
    /\ Alive
    /\ startPc = "startup"
    /\ startupCur = <<>>
    /\ eid \in startupTodo
    /\ startupTodo' = startupTodo \ {eid}
    /\ startupCur' = <<eid, 1>>
    /\ UNCHANGED <<schedVars, runVars>>
    /\ UNCHANGED extVars
    /\ UNCHANGED <<now, appConn, appCancel, ctxDone, listener, entityListeners,
                   registerPanics, nextId, entityListenersId, startPc, readerPc,
                   serverFrames, framesRead, received, elChan, chanCloses, tasks, finished, timers,
                   calls, closePc, closeCalls, closeRet, closePanic>>

StartupDueEveryEntity(l) == l.runOnStartup

\* `if etl.runOnStartup && !etl.runOnStartupCompleted`
StartupDue(l) == l.runOnStartup /\ ~l.runOnStartupCompleted

\* One iteration of `for _, etl := range etls`; fetchErr is the outcome of
\* app.state.Get(eid), which is only logged.
StartupVisit ==
    /\ Alive
    /\ startPc = "startup"
    /\ startupCur # <<>>
    /\ LET eid == startupCur[1]
           idx == startupCur[2]
           lid == entityListeners[eid][idx]
       IN /\ IF StartupDue(listener[lid])
             THEN \E fetchErr \in BOOLEAN :
                    /\ listener' = [listener EXCEPT ![lid].runOnStartupCompleted = TRUE]
                    /\ calls' = Append(calls, [lid |-> lid, kind |-> "startup", n |-> 0,
                                               eid |-> eid, at |-> now, err |-> fetchErr])
             ELSE UNCHANGED <<listener, calls>>
          /\ startupCur' = IF idx < Len(entityListeners[eid]) THEN <<eid, idx + 1>> ELSE <<>>
    /\ UNCHANGED <<schedVars, runVars>>
    /\ UNCHANGED extVars
    /\ UNCHANGED <<now, appConn, appCancel, ctxDone, entityListeners, registerPanics,
                   nextId, entityListenersId, startPc, startupTodo, readerPc, serverFrames, framesRead,
                   received, elChan, chanCloses, tasks, finished, timers, closePc,
                   closeCalls, closeRet, closePanic>>

\* elChan is made and the reader goroutine is started
StartLoop ==
    /\ Alive
    /\ startPc = "startup"
    /\ startupCur = <<>>
    /\ startupTodo = {}
    /\ startPc' = "loop"
    /\ readerPc' = "running"
    /\ UNCHANGED <<schedVars, runVars>>
    /\ UNCHANGED extVars
    /\ UNCHANGED <<now, appConn, appCancel, ctxDone, listener, entityListeners,
                   registerPanics, nextId, entityListenersId, startupTodo, startupCur,
                   serverFrames, framesRead, received, elChan, chanCloses, tasks, finished, timers,
                   calls, closePc, closeCalls, closeRet, closePanic>>

\* `if app.entityListenersId == msg.Id`
IsEntityTraffic(msg) == msg.id = entityListenersId

\* `case msg, ok := <-elChan` with ok: a dispatch goroutine is started
MainRecv ==
    /\ Alive
    /\ startPc = "loop"
    /\ elChan # <<>>
    /\ elChan' = Tail(elChan)
    /\ tasks' = tasks \cup
          {[n |-> Head(elChan), idx |-> 0, tm |-> 0,
            pc |-> IF IsEntityTraffic(received[Head(elChan)]) THEN "begin" ELSE "event"]}
    /\ UNCHANGED <<schedVars, runVars>>
    /\ UNCHANGED extVars
    /\ UNCHANGED <<now, appConn, appCancel, ctxDone, listener, entityListeners,
                   registerPanics, nextId, entityListenersId, startPc, startupTodo,
                   startupCur, readerPc, serverFrames, framesRead, received, chanCloses, finished,
                   timers, calls, closePc, closeCalls, closeRet, closePanic>>

\* `case msg, ok := <-elChan` with !ok: the channel is closed and drained
MainChanClosed ==
    /\ Alive
    /\ startPc = "loop"
    /\ elChan = <<>>
    /\ chanCloses > 0
    /\ startPc' = "returned"
    /\ UNCHANGED <<schedVars, runVars>>
    /\ UNCHANGED extVars
    /\ UNCHANGED <<now, appConn, appCancel, ctxDone, listener, entityListeners,
                   registerPanics, nextId, entityListenersId, startupTodo, startupCur,
                   readerPc, serverFrames, framesRead, received, elChan, chanCloses, tasks, finished,
                   timers, calls, closePc, closeCalls, closeRet, closePanic>>

\* `case <-app.ctx.Done()`
MainCtxDone ==
    /\ Alive
    /\ startPc = "loop"
    /\ ctxDone
    /\ startPc' = "returned"
    /\ UNCHANGED <<schedVars, runVars>>
    /\ UNCHANGED extVars
    /\ UNCHANGED <<now, appConn, appCancel, ctxDone, listener, entityListeners,
                   registerPanics, nextId, entityListenersId, startupTodo, startupCur,
                   readerPc, serverFrames, framesRead, received, elChan, chanCloses, tasks, finished,
                   timers, calls, closePc, closeCalls, closeRet, closePanic>>

\* -------------------------------------------------------- ListenWebsocket
\* The state_changed events the server can send, and an event of another
\* subscription.
StateChangedMsgs ==
    {[id |-> entityListenersId, eid |-> e, old |-> o, new |-> s, at |-> now] :
        e \in Entities, o \in States, s \in States}

OtherMsgs == {[id |-> entityListenersId + 1, eid |-> "a", old |-> "off", new |-> "on",
               at |-> now]}

ReadErrorLeavesChannelOpen ==
    /\ readerPc = "running"
    /\ readerPc' = "failed"
    /\ UNCHANGED <<schedVars, runVars>>
    /\ UNCHANGED extVars
    /\ UNCHANGED <<now, appConn, appCancel, ctxDone, listener, entityListeners,
                   registerPanics, nextId, entityListenersId, startPc, startupTodo,
                   startupCur, serverFrames, framesRead, received, elChan, chanCloses,
                   tasks, finished, timers, calls, closePc, closeCalls, closeRet,
                   closePanic>>

\* ReadMessageRaw fails: close(c) and leave the loop
ReadError ==
    /\ Alive
    /\ readerPc = "running"
    /\ chanCloses' = chanCloses + 1
    /\ readerPc' = "failed"
    /\ UNCHANGED <<schedVars, runVars>>
    /\ UNCHANGED extVars
    /\ UNCHANGED <<now, appConn, appCancel, ctxDone, listener, entityListeners,
                   registerPanics, nextId, entityListenersId, startPc, startupTodo,
                   startupCur, serverFrames, framesRead, received, elChan, tasks, finished, timers,
                   calls, closePc, closeCalls, closeRet, closePanic>>

\* json.Unmarshal fails: the frame is skipped
ReadMalformed ==
    /\ Alive
    /\ readerPc = "running"
    /\ appConn = "open"
    /\ framesRead < serverFrames
    /\ framesRead' = framesRead + 1
    /\ UNCHANGED <<schedVars, runVars>>
    /\ UNCHANGED extVars
    /\ UNCHANGED <<now, appConn, appCancel, ctxDone, listener, entityListeners,
                   registerPanics, nextId, entityListenersId, startPc, startupTodo,
                   startupCur, serverFrames, readerPc, received, elChan, chanCloses, tasks, finished,
                   timers, calls, closePc, closeCalls, closeRet, closePanic>>

\* the non-blocking send `select { case c <- channelMessage: default: close(c) }`
ReadFrame(msg) ==
    /\ Alive
    /\ readerPc = "running"
    /\ appConn = "open"
    /\ framesRead < serverFrames
    /\ framesRead' = framesRead + 1
    /\ IF Len(elChan) < ChanCap
       THEN /\ received' = Append(received, msg)
            /\ elChan' = Append(elChan, Len(received) + 1)
            /\ UNCHANGED <<chanCloses, readerPc>>
       ELSE /\ chanCloses' = chanCloses + 1
            /\ readerPc' = "full"
            /\ UNCHANGED <<received, elChan>>
    /\ UNCHANGED <<schedVars, runVars>>
    /\ UNCHANGED extVars
    /\ UNCHANGED <<now, appConn, appCancel, ctxDone, listener, entityListeners,
                   registerPanics, nextId, entityListenersId, startPc, startupTodo,
                   startupCur, serverFrames, tasks, finished, timers, calls, closePc, closeCalls,
                   closeRet, closePanic>>

\* ---------------------------------------------------- callEntityListeners
\* A dispatch goroutine is [n, idx, tm, pc]: the message received[n], the index
\* in app.entityListeners[eid] of the listener it is at, the timer it has just
\* made (0 for none), and "begin" (before the loop), "check" (before the
\* conditions of listener idx), "act" (the conditions passed, before the
\* timer is made or the callback is started), "store" (the timer is made,
\* before it is stored in l.delayTimer) or "stamp" (the callback is started,
\* before l.lastRan is written).

SameStateNeverSkips(msg) == FALSE

\* `if msg.Event.Data.NewState.State == msg.Event.Data.OldState.State`
SameState(msg) == msg.new = msg.old

\* The outcomes of State.Equals the enabled/disabled checks can meet: the
\* answers to the requests of CheckEnabledEntity and to those of
\* CheckDisabledEntity, each request with an answer of its own.
FetchOutcomes(l) ==
    [en : AnswerSeqs(Len(l.enabledEntities)), dis : AnswerSeqs(Len(l.disabledEntities))]

\* The conditions of the loop body in the order the code evaluates them: the
\* first one that fails, or "pass".
FirstFailing(l, msg, t, fetch) ==
    IF CheckWithinTimeRange(l.betweenStart, l.betweenEnd, t) THEN "window"
    ELSE IF CheckStatesMatch(l.fromState, msg.old) THEN "from"
    ELSE IF CheckStatesMatch(l.toState, msg.new) THEN "to"
    ELSE IF CheckThrottle(l.throttle, l.lastRan, t) THEN "throttle"
    ELSE IF CheckExceptionDates(l.exceptionDates, t) THEN "exdate"
    ELSE IF CheckExceptionRanges(l.exceptionRanges, t) THEN "exrange"
    ELSE IF CheckEnabledEntity(fetch.en, l.enabledEntities) THEN "enabled"
    ELSE IF CheckDisabledEntity(fetch.dis, l.disabledEntities) THEN "disabled"
    ELSE "pass"

\* l.delayTimer.Stop(): a timer that has fired or was stopped is left as it is
StopTimer(ts, i) ==
    IF i # 0 /\ ts[i].st = "pending" THEN [ts EXCEPT ![i].st = "stopped"] ELSE ts

AfterFuncAtOnce(delay, t) == t

\* time.AfterFunc(l.delay, ...): the instant the timer is due
AfterFunc(delay, t) == t + delay

\* `continue` / the end of the loop body: on to the next listener, or return
TasksAfter(t) ==
    IF t.idx < Len(entityListeners[received[t.n].eid])
    THEN (tasks \ {t}) \cup {[t EXCEPT !.idx = t.idx + 1, !.tm = 0, !.pc = "check"]}
    ELSE tasks \ {t}

FinishedAfter(t) ==
    IF t.idx < Len(entityListeners[received[t.n].eid])
    THEN finished
    ELSE finished \cup {t.n}

\* `l` of the loop body: the listener dispatch goroutine t is at
ListenerOf(t) == entityListeners[received[t.n].eid][t.idx]

\* lines 374-390: the lookup of the listeners and the old == new test
DispatchBegin(t) ==
    /\ Alive
    /\ t \in tasks
    /\ t.pc = "begin"
    /\ LET msg == received[t.n]
       IN IF entityListeners[msg.eid] = <<>> \/ SameState(msg)
          THEN /\ tasks' = tasks \ {t}
               /\ finished' = finished \cup {t.n}
          ELSE /\ tasks' = (tasks \ {t}) \cup {[t EXCEPT !.idx = 1, !.pc = "check"]}
               /\ UNCHANGED finished
    /\ UNCHANGED <<schedVars, runVars>>
    /\ UNCHANGED extVars
    /\ UNCHANGED <<now, appConn, appCancel, ctxDone, listener, entityListeners,
                   registerPanics, nextId, entityListenersId, startPc, startupTodo,
                   startupCur, readerPc, serverFrames, framesRead, received, elChan, chanCloses,
                   timers, calls, closePc, closeCalls, closeRet, closePanic>>

\* lines 393-420: the conditions of one listener
DispatchCheck(t) ==
    /\ Alive
    /\ t \in tasks
    /\ t.pc = "check"
    /\ LET msg == received[t.n]
           lid == entityListeners[msg.eid][t.idx]
           l == listener[lid]
       IN \E fetch \in FetchOutcomes(l) :
            LET failing == FirstFailing(l, msg, now, fetch)
            IN IF failing = "pass"
               THEN /\ tasks' = (tasks \ {t}) \cup {[t EXCEPT !.pc = "act"]}
                    /\ UNCHANGED <<finished, timers>>
               ELSE /\ timers' = IF failing = "to" THEN StopTimer(timers, l.delayTimer)
                                 ELSE timers
                    /\ tasks' = TasksAfter(t)
                    /\ finished' = FinishedAfter(t)
    /\ UNCHANGED <<schedVars, runVars>>
    /\ UNCHANGED extVars
    /\ UNCHANGED <<now, appConn, appCancel, ctxDone, listener, entityListeners,
                   registerPanics, nextId, entityListenersId, startPc, startupTodo,
                   startupCur, readerPc, serverFrames, framesRead, received, elChan, chanCloses,
                   calls, closePc, closeCalls, closeRet, closePanic>>

\* line 433, `time.AfterFunc(l.delay, ...)`: the timer is made and runs from
\* now on; or line 441, `go l.callback(...)`: the callback is started.  The
\* write that follows either of them is a step of its own.
DispatchAct(t) ==
    /\ Alive
    /\ t \in tasks
    /\ t.pc = "act"
    /\ LET msg == received[t.n]
           lid == entityListeners[msg.eid][t.idx]
           l == listener[lid]
       IN IF l.delay # 0
          THEN /\ timers' = Append(timers, [lid |-> lid, n |-> t.n, eid |-> msg.eid,
                                            due |-> AfterFunc(l.delay, now),
                                            st |-> "pending", stamped |-> FALSE])
               /\ tasks' = (tasks \ {t}) \cup
                              {[t EXCEPT !.tm = Len(timers) + 1, !.pc = "store"]}
               /\ UNCHANGED calls
          ELSE /\ calls' = Append(calls, [lid |-> lid, kind |-> "event", n |-> t.n,
                                          eid |-> msg.eid, at |-> now, err |-> FALSE])
               /\ tasks' = (tasks \ {t}) \cup {[t EXCEPT !.pc = "stamp"]}
               /\ UNCHANGED timers
    /\ UNCHANGED <<listener, finished>>
    /\ UNCHANGED <<schedVars, runVars>>
    /\ UNCHANGED extVars
    /\ UNCHANGED <<now, appConn, appCancel, ctxDone, entityListeners, registerPanics,
                   nextId, entityListenersId, startPc, startupTodo, startupCur, readerPc,
                   serverFrames, framesRead, received, elChan, chanCloses, closePc, closeCalls,
                   closeRet, closePanic>>

\* line 433, `l.delayTimer = ...`: the timer made is stored in the listener
DispatchStore(t) ==
    /\ Alive
    /\ t \in tasks
    /\ t.pc = "store"
    /\ listener' = [listener EXCEPT ![ListenerOf(t)].delayTimer = t.tm]
    /\ tasks' = TasksAfter(t)
    /\ finished' = FinishedAfter(t)
    /\ UNCHANGED <<timers, calls>>
    /\ UNCHANGED <<schedVars, runVars>>
    /\ UNCHANGED extVars
    /\ UNCHANGED <<now, appConn, appCancel, ctxDone, entityListeners, registerPanics,
                   nextId, entityListenersId, startPc, startupTodo, startupCur, readerPc,
                   serverFrames, framesRead, received, elChan, chanCloses, closePc, closeCalls,
                   closeRet, closePanic>>

\* line 442, `l.lastRan = carbon.Now()`
DispatchStamp(t) ==
    /\ Alive
    /\ t \in tasks
    /\ t.pc = "stamp"
    /\ listener' = [listener EXCEPT ![ListenerOf(t)].lastRan = now]
    /\ tasks' = TasksAfter(t)
    /\ finished' = FinishedAfter(t)
    /\ UNCHANGED <<timers, calls>>
    /\ UNCHANGED <<schedVars, runVars>>
    /\ UNCHANGED extVars
    /\ UNCHANGED <<now, appConn, appCancel, ctxDone, entityListeners, registerPanics,
                   nextId, entityListenersId, startPc, startupTodo, startupCur, readerPc,
                   serverFrames, framesRead, received, elChan, chanCloses, closePc, closeCalls,
                   closeRet, closePanic>>

\* the function given to time.AfterFunc, run by the timer when it is due:
\* `go l.callback(app.service, app.state, entityData)`
TimerFire(i) ==
    /\ Alive
    /\ i \in 1..Len(timers)
    /\ timers[i].st = "pending"
    /\ now >= timers[i].due
    /\ timers' = [timers EXCEPT ![i].st = "fired"]
    /\ calls' = Append(calls, [lid |-> timers[i].lid, kind |-> "timer", n |-> timers[i].n,
                               eid |-> timers[i].eid, at |-> now, err |-> FALSE])
    /\ UNCHANGED listener
    /\ UNCHANGED <<schedVars, runVars>>
    /\ UNCHANGED extVars
    /\ UNCHANGED <<now, appConn, appCancel, ctxDone, entityListeners, registerPanics,
                   nextId, entityListenersId, startPc, startupTodo, startupCur, readerPc,
                   serverFrames, framesRead, received, elChan, chanCloses, tasks, finished, closePc,
                   closeCalls, closeRet, closePanic>>

\* the rest of the function given to time.AfterFunc: `l.lastRan = carbon.Now()`
TimerStamp(i) ==
    /\ Alive
    /\ i \in 1..Len(timers)
    /\ timers[i].st = "fired"
    /\ ~timers[i].stamped
    /\ timers' = [timers EXCEPT ![i].stamped = TRUE]
    /\ listener' = [listener EXCEPT ![timers[i].lid].lastRan = now]
    /\ UNCHANGED <<schedVars, runVars>>
    /\ UNCHANGED extVars
    /\ UNCHANGED <<now, appConn, appCancel, ctxDone, entityListeners, registerPanics,
                   nextId, entityListenersId, startPc, startupTodo, startupCur, readerPc,
                   serverFrames, framesRead, received, elChan, chanCloses, tasks, finished,
                   calls, closePc, closeCalls, closeRet, closePanic>>

\* callEventListeners: the goroutine returns; what it calls is left out
CallEventListeners(t) ==
    /\ Alive
    /\ t \in tasks
    /\ t.pc = "event"
    /\ tasks' = tasks \ {t}
    /\ finished' = finished \cup {t.n}
    /\ UNCHANGED <<schedVars, runVars>>
    /\ UNCHANGED extVars
    /\ UNCHANGED <<now, appConn, appCancel, ctxDone, listener, entityListeners,
                   registerPanics, nextId, entityListenersId, startPc, startupTodo,
                   startupCur, readerPc, serverFrames, framesRead, received, elChan, chanCloses,
                   timers, calls, closePc, closeCalls, closeRet, closePanic>>

\* The clock advances, whatever the program is doing; it runs on past MaxTime
\* while a timer is still to come due.
Tick ==
    /\ \/ now < MaxTime
       \/ \E i \in 1..Len(timers) : timers[i].st = "pending" /\ timers[i].due > now
    /\ now' = now + 1
    /\ UNCHANGED <<schedVars, runVars>>
    /\ UNCHANGED extVars
    /\ UNCHANGED <<appConn, appCancel, ctxDone, listener, entityListeners, registerPanics,
                   nextId, entityListenersId, startPc, startupTodo, startupCur, readerPc,
                   serverFrames, framesRead, received, elChan, chanCloses, tasks, finished, timers,
                   calls, closePc, closeCalls, closeRet, closePanic>>

\* ------------------------------------------------- App.Close, App.Cleanup
CancelGuardMissing == TRUE

\* `if app.ctxCancel != nil`
CancelGuard == appCancel # "nil"

\* `if app.conn != nil`
ConnGuard == appConn # "nil"

\* lines 141-155: the close frame and Conn.Close; either can fail, and a
\* connection that is already closed fails the write
CloseConn ==
    /\ closePc = "idle"
    /\ closeCalls < MaxCloses
    /\ closeCalls' = closeCalls + 1
    /\ UNCHANGED closePanic
    /\ IF ConnGuard
       THEN \E wrote \in (IF appConn = "open" THEN BOOLEAN ELSE {FALSE}),
               closed \in BOOLEAN :
              IF ~wrote
              THEN /\ closeRet' = Append(closeRet, "err")
                   /\ UNCHANGED <<appConn, closePc>>
              ELSE /\ appConn' = "closed"
                   /\ IF closed
                      THEN closePc' = "sleep" /\ UNCHANGED closeRet
                      ELSE closeRet' = Append(closeRet, "err") /\ UNCHANGED closePc
       ELSE /\ closePc' = "sleep"
            /\ UNCHANGED <<appConn, closeRet>>
    /\ UNCHANGED <<schedVars, runVars>>
    /\ UNCHANGED extVars
    /\ UNCHANGED <<now, appCancel, ctxDone, listener, entityListeners, registerPanics,
                   nextId, entityListenersId, startPc, startupTodo, startupCur, readerPc,
                   serverFrames, framesRead, received, elChan, chanCloses, tasks, finished,
                   timers, calls>>

\* lines 157-163: after the first sleep the context is cancelled
CloseCancel ==
    /\ closePc = "sleep"
    /\ closePc' = "cancelled"
    /\ IF CancelGuard
       THEN IF appCancel = "nil"
            THEN closePanic' = TRUE /\ UNCHANGED ctxDone
            ELSE ctxDone' = TRUE /\ UNCHANGED closePanic
       ELSE UNCHANGED <<ctxDone, closePanic>>
    /\ UNCHANGED <<schedVars, runVars>>
    /\ UNCHANGED extVars
    /\ UNCHANGED <<now, appConn, appCancel, listener, entityListeners, registerPanics,
                   nextId, entityListenersId, startPc, startupTodo, startupCur, readerPc,
                   serverFrames, framesRead, received, elChan, chanCloses, tasks, finished, timers,
                   calls, closeCalls, closeRet>>

\* lines 165-169: after the second sleep Close returns nil
CloseReturn ==
    /\ closePc = "cancelled"
    /\ ~closePanic
    /\ closePc' = "idle"
    /\ closeRet' = Append(closeRet, "nil")
    /\ UNCHANGED <<schedVars, runVars>>
    /\ UNCHANGED extVars
    /\ UNCHANGED <<now, appConn, appCancel, ctxDone, listener, entityListeners,
                   registerPanics, nextId, entityListenersId, startPc, startupTodo,
                   startupCur, readerPc, serverFrames, framesRead, received, elChan, chanCloses, tasks,
                   finished, timers, calls, closeCalls, closePanic>>

\* App.Cleanup: cancel the context if there is a cancel function
Cleanup ==
    /\ appCancel # "nil"
    /\ ~ctxDone
    /\ ctxDone' = TRUE
    /\ UNCHANGED <<schedVars, runVars>>
    /\ UNCHANGED extVars
    /\ UNCHANGED <<now, appConn, appCancel, listener, entityListeners, registerPanics,
                   nextId, entityListenersId, startPc, startupTodo, startupCur, readerPc,
                   serverFrames, framesRead, received, elChan, chanCloses, tasks, finished, timers,
                   calls, closePc, closeCalls, closeRet, closePanic>>

\* --------------------------------------------------------- user callbacks
\* Every callback is started as `go callback(...)`: the goroutine is the
\* callback itself, with no deferred recover around it.
DeferredRecover == FALSE

\* A callback goroutine that was started panics.  A panic that reaches the
\* top of a goroutine ends the process.
CallbackPanics ==
    /\ Alive
    /\ calls # <<>> \/ ran # {}
    /\ ~callbackPanicked
    /\ callbackPanicked' = TRUE
    /\ processDown' = ~DeferredRecover
    /\ UNCHANGED <<schedVars, runVars, schedPassed, eventVars, pureVars, auxVars>>
    /\ UNCHANGED <<now, appConn, appCancel, ctxDone, listener, entityListeners,
                   registerPanics, nextId, entityListenersId, startPc, startupTodo,
                   startupCur, readerPc, serverFrames, framesRead, received, elChan,
                   chanCloses, tasks, finished, timers, calls, closePc, closeCalls,
                   closeRet, closePanic>>

\* ------------------------------------------------ schedules and intervals
\* The priority queues are taken by their interface: Put adds the items it is
\* given, Get(1) removes an item of least priority and waits while the queue
\* is empty.  A queue is the set of its items; the priority of an item is
\* its nextRunTime.

\* NewDailySchedule(): hour and minute 0, no sun flag.  id tells the items of
\* a queue apart: it is the place of the schedule among those registered.
\* priority is the Priority of the Item the value travels in.
NewDailySchedule ==
    [id |-> 0, priority |-> 0,
     hour |-> 0, isSunrise |-> FALSE, isSunset |-> FALSE, nextRunTime |-> 0,
     exceptionDates |-> <<>>, allowlistDates |-> <<>>,
     enabledEntities |-> <<>>, disabledEntities |-> <<>>]

\* NewInterval(): frequency 0, startTime and endTime "00:00"
NewInterval ==
    [id |-> 0, priority |-> 0,
     frequency |-> 0, startTime |-> <<0>>, endTime |-> <<0>>, nextRunTime |-> 0,
     exceptionDates |-> <<>>, exceptionRanges |-> <<>>,
     enabledEntities |-> <<>>, disabledEntities |-> <<>>]

\* The schedules user code builds: At(hh:mm) and Sunrise().
ScheduleBuilds ==
    {[NewDailySchedule EXCEPT !.hour = h] : h \in {0, DayLen \div 2}}
    \cup {[NewDailySchedule EXCEPT !.isSunrise = TRUE]}

\* The intervals user code builds: Every(d) takes any duration ParseDuration
\* reads, a negative one too; without Every the frequency stays 0.
IntervalBuilds ==
    {[NewInterval EXCEPT !.frequency = f, !.startTime = <<st>>] :
        f \in {0 - 1, 0, 1, DayLen \div 2}, st \in {0, DayLen \div 2}}

\* `Item{Value: v, Priority: float64(v.nextRunTime.Unix())}`
Item(v) == [v EXCEPT !.priority = v.nextRunTime]

\* getSunriseSunset, without offset: the sunrise of the day of t
GetSunriseSunset(t) == DayStart(t) + SunTick

\* getNextSunRiseOrSet: today's, or tomorrow's when today's is past
GetNextSunRiseOrSet(t) ==
    IF GetSunriseSunset(t) < t THEN GetSunriseSunset(t + DayLen) ELSE GetSunriseSunset(t)

\* The item RegisterSchedules puts for the fixed-time schedule s, the id-th
\* one, at t: the first run is today at hour:minute, or tomorrow when that is
\* past.
RegisteredSchedule(s, id, t) ==
    LET today == DayStart(t) + s.hour
        startTime == IF today < t THEN today + DayLen ELSE today
    IN Item([s EXCEPT !.id = id, !.nextRunTime = startTime])

\* App.RegisterSchedules, for one schedule.  On the sunrise/sunset path Put is
\* called with no item; on the other the first run is today at hour:minute,
\* or tomorrow when that is past.
RegisterSchedules(s) ==
    /\ startPc = "idle"
    /\ ~registerHung
    /\ Len(schedPassed) < MaxSchedules
    /\ schedPassed' = Append(schedPassed, s)
    /\ IF s.isSunrise \/ s.isSunset
       THEN UNCHANGED schedules
       ELSE schedules' = schedules \cup {RegisteredSchedule(s, Len(schedPassed) + 1, now)}
    /\ UNCHANGED <<intervals, registerHung, ran, runVars>>
    /\ UNCHANGED <<panicVars, eventVars, pureVars, auxVars>>
    /\ UNCHANGED <<now, appConn, appCancel, ctxDone, listener, entityListeners,
                   registerPanics, nextId, entityListenersId, startPc, startupTodo,
                   startupCur, readerPc, serverFrames, framesRead, received, elChan,
                   chanCloses, tasks, finished, timers, calls, closePc, closeCalls,
                   closeRet, closePanic>>

\* `for i.nextRunTime.Before(now) { i.nextRunTime = i.nextRunTime.Add(i.frequency) }`
RECURSIVE FirstRun(_, _, _)
FirstRun(nextRunTime, frequency, t) ==
    IF nextRunTime < t THEN FirstRun(nextRunTime + frequency, frequency, t)
    ELSE nextRunTime

\* The item RegisterIntervals puts for the interval i, the id-th one, at t.
RegisteredInterval(i, id, t) ==
    Item([i EXCEPT !.id = id,
                   !.nextRunTime = FirstRun(ParseTime(i.startTime, t), i.frequency, t)])

\* App.RegisterIntervals, for one interval.  Frequency 0 panics; with a
\* negative frequency and a start time that is past the loop never ends.
RegisterIntervals(i) ==
    /\ startPc = "idle"
    /\ ~registerHung
    /\ Cardinality(intervals) + registerPanics < MaxIntervals
    /\ IF i.frequency = 0
       THEN /\ registerPanics' = registerPanics + 1
            /\ UNCHANGED <<intervals, registerHung>>
       ELSE IF i.frequency < 0 /\ ParseTime(i.startTime, now) < now
       THEN /\ registerHung' = TRUE
            /\ UNCHANGED <<intervals, registerPanics>>
       ELSE /\ intervals' = intervals \cup
                   {RegisteredInterval(i, Cardinality(intervals) + 1, now)}
            /\ UNCHANGED <<registerHung, registerPanics>>
    /\ UNCHANGED <<schedules, ran, runVars>>
    /\ UNCHANGED extVars
    /\ UNCHANGED <<now, appConn, appCancel, ctxDone, listener, entityListeners,
                   nextId, entityListenersId, startPc, startupTodo,
                   startupCur, readerPc, serverFrames, framesRead, received, elChan,
                   chanCloses, tasks, finished, timers, calls, closePc, closeCalls,
                   closeRet, closePanic>>

CheckAllowlistDates(eList, t) ==
    Len(eList) # 0 /\ ~\E k \in 1..Len(eList) : DayOf(eList[k]) = DayOf(t)

\* "00:00" passes at once
CheckStartEndTime(s, isStart, t) ==
    IF s = <<0>> THEN FALSE
    ELSE IF isStart THEN ParseTime(s, t) > t
    ELSE ParseTime(s, t) < t

LenNeverZero(queue) == FALSE

\* `a.schedules.Len() == 0`, `a.intervals.Len() == 0`
LenIsZero(queue) == queue = {}

AnyItem(queue) == queue

\* the items Get(1) may hand out: those of least priority
Least(queue) == {x \in queue : \A y \in queue : x.priority <= y.priority}

\* The run of an interval is followed as long as the time it is put back
\* with is no more than Horizon before the start of the run.
WithinHorizon(i) == i.nextRunTime + i.frequency >= 0 - Horizon

\* maybeRunCallback ends in `go s.callback(...)`, `go i.callback(...)`: the
\* callback has its own goroutine and the run loop goes on without it.
CallbackInline == FALSE
CallbackSpawned == TRUE

\* DailySchedule.maybeRunCallback: no check holds the callback back
ScheduleRuns(s, fetch) ==
    ~ \/ CheckExceptionDates(s.exceptionDates, now)
      \/ CheckAllowlistDates(s.allowlistDates, now)
      \/ CheckEnabledEntity(fetch.en, s.enabledEntities)
      \/ CheckDisabledEntity(fetch.dis, s.disabledEntities)

\* DailySchedule.maybeRunCallback: the callback goroutines after it; none of
\* them returns
ScheduleRan(s, fetch) ==
    IF ~ScheduleRuns(s, fetch)
    THEN ran
    ELSE ran \cup {[kind |-> "schedule", id |-> s.id, due |-> s.nextRunTime, at |-> now]}

\* requeueSchedule: the item put back
RequeuedSchedule(s) ==
    IF s.isSunrise \/ s.isSunset
    THEN Item([s EXCEPT !.nextRunTime = GetNextSunRiseOrSet(now)])
    ELSE Item([s EXCEPT !.nextRunTime = s.nextRunTime + DayLen])


\* runSchedules: `if a.schedules.Len() == 0 { return }`
RunSchedulesBegin ==
    /\ Alive
    /\ schedRun.pc = "start"
    /\ schedRun' = [schedRun EXCEPT !.pc = IF LenIsZero(schedules) THEN "returned" ELSE "top"]
    /\ UNCHANGED <<schedVars, intvRun>>
    /\ UNCHANGED extVars
    /\ UNCHANGED <<now, appConn, appCancel, ctxDone, listener, entityListeners,
                   registerPanics, nextId, entityListenersId, startPc, startupTodo,
                   startupCur, readerPc, serverFrames, framesRead, received, elChan,
                   chanCloses, tasks, finished, timers, calls, closePc, closeCalls,
                   closeRet, closePanic>>

\* runSchedules, the head of the loop: return when the context is done, else
\* popSchedule
RunSchedulesTop ==
    /\ Alive
    /\ schedRun.pc = "top"
    /\ IF ctxDone
       THEN /\ schedRun' = [schedRun EXCEPT !.pc = "returned"]
            /\ UNCHANGED schedules
       ELSE IF schedules = {}
       THEN /\ schedRun' = [schedRun EXCEPT !.pc = "blocked"]
            /\ UNCHANGED schedules
       ELSE \E x \in Least(schedules) :
            /\ schedRun' = [pc |-> "catchup", item |-> x, turn |-> 0]
            /\ schedules' = schedules \ {x}
    /\ UNCHANGED <<intervals, registerHung, ran, intvRun>>
    /\ UNCHANGED extVars
    /\ UNCHANGED <<now, appConn, appCancel, ctxDone, listener, entityListeners,
                   registerPanics, nextId, entityListenersId, startPc, startupTodo,
                   startupCur, readerPc, serverFrames, framesRead, received, elChan,
                   chanCloses, tasks, finished, timers, calls, closePc, closeCalls,
                   closeRet, closePanic>>

\* runSchedules, `for sched.nextRunTime.Before(time.Now())`: one turn of the loop
\* (maybeRunCallback, requeue, pop), or the way out to the sleep
RunSchedulesCatchUp ==
    /\ Alive
    /\ schedRun.pc = "catchup"
    /\ IF schedRun.item.nextRunTime < now
       THEN \E fetch \in FetchOutcomes(schedRun.item) :
            LET after == schedules \cup {RequeuedSchedule(schedRun.item)}
            IN /\ ran' = ScheduleRan(schedRun.item, fetch)
               /\ IF ScheduleRuns(schedRun.item, fetch) /\ ~CallbackSpawned
                  THEN /\ schedRun' = [schedRun EXCEPT !.pc = "incallback"]
                       /\ UNCHANGED schedules
                  ELSE \E x \in Least(after) :
                     /\ schedRun' = [pc |-> "catchup", item |-> x, turn |-> 1 - schedRun.turn]
                     /\ schedules' = after \ {x}
       ELSE /\ schedRun' = [schedRun EXCEPT !.pc = "sleep", !.turn = 0]
            /\ UNCHANGED <<schedules, ran>>
    /\ UNCHANGED <<intervals, registerHung, intvRun>>
    /\ UNCHANGED extVars
    /\ UNCHANGED <<now, appConn, appCancel, ctxDone, listener, entityListeners,
                   registerPanics, nextId, entityListenersId, startPc, startupTodo,
                   startupCur, readerPc, serverFrames, framesRead, received, elChan,
                   chanCloses, tasks, finished, timers, calls, closePc, closeCalls,
                   closeRet, closePanic>>

\* runSchedules, `case <-time.After(time.Until(sched.nextRunTime))`, then
\* maybeRunCallback and requeue
RunSchedulesWake ==
    /\ Alive
    /\ schedRun.pc = "sleep"
    /\ schedRun.item.nextRunTime <= now
    /\ \E fetch \in FetchOutcomes(schedRun.item) :
          /\ ran' = ScheduleRan(schedRun.item, fetch)
          /\ IF ScheduleRuns(schedRun.item, fetch) /\ ~CallbackSpawned
             THEN /\ schedRun' = [schedRun EXCEPT !.pc = "incallback"]
                  /\ UNCHANGED schedules
             ELSE /\ schedules' = schedules \cup {RequeuedSchedule(schedRun.item)}
                  /\ schedRun' = [pc |-> "top", item |-> NoItem, turn |-> 0]
    /\ UNCHANGED <<intervals, registerHung, intvRun>>
    /\ UNCHANGED extVars
    /\ UNCHANGED <<now, appConn, appCancel, ctxDone, listener, entityListeners,
                   registerPanics, nextId, entityListenersId, startPc, startupTodo,
                   startupCur, readerPc, serverFrames, framesRead, received, elChan,
                   chanCloses, tasks, finished, timers, calls, closePc, closeCalls,
                   closeRet, closePanic>>

\* runSchedules, `case <-a.ctx.Done()` of the sleep
RunSchedulesCancelled ==
    /\ Alive
    /\ schedRun.pc = "sleep"
    /\ ctxDone
    /\ schedRun' = [schedRun EXCEPT !.pc = "returned"]
    /\ UNCHANGED <<schedVars, intvRun>>
    /\ UNCHANGED extVars
    /\ UNCHANGED <<now, appConn, appCancel, ctxDone, listener, entityListeners,
                   registerPanics, nextId, entityListenersId, startPc, startupTodo,
                   startupCur, readerPc, serverFrames, framesRead, received, elChan,
                   chanCloses, tasks, finished, timers, calls, closePc, closeCalls,
                   closeRet, closePanic>>

IntervalAlwaysRuns(i, fetch) == TRUE

\* Interval.maybeRunCallback: no check holds the callback back
IntervalRuns(i, fetch) ==
    ~ \/ CheckStartEndTime(i.startTime, TRUE, now)
      \/ CheckStartEndTime(i.endTime, FALSE, now)
      \/ CheckExceptionDates(i.exceptionDates, now)
      \/ CheckExceptionRanges(i.exceptionRanges, now)
      \/ CheckEnabledEntity(fetch.en, i.enabledEntities)
      \/ CheckDisabledEntity(fetch.dis, i.disabledEntities)

\* Interval.maybeRunCallback: the callback goroutines after it; none of them
\* returns
IntervalRan(i, fetch) ==
    IF ~IntervalRuns(i, fetch)
    THEN ran
    ELSE ran \cup {[kind |-> "interval", id |-> i.id, due |-> i.nextRunTime, at |-> now]}

RequeuedFromNow(i) == Item([i EXCEPT !.nextRunTime = now + i.frequency])

\* requeueInterval: `i.nextRunTime = i.nextRunTime.Add(i.frequency)` and the
\* item put back
RequeuedInterval(i) == Item([i EXCEPT !.nextRunTime = i.nextRunTime + i.frequency])

\* runIntervals: `if a.intervals.Len() == 0 { return }`
RunIntervalsBegin ==
    /\ Alive
    /\ intvRun.pc = "start"
    /\ intvRun' = [intvRun EXCEPT !.pc = IF LenIsZero(intervals) THEN "returned" ELSE "top"]
    /\ UNCHANGED <<schedVars, schedRun>>
    /\ UNCHANGED extVars
    /\ UNCHANGED <<now, appConn, appCancel, ctxDone, listener, entityListeners,
                   registerPanics, nextId, entityListenersId, startPc, startupTodo,
                   startupCur, readerPc, serverFrames, framesRead, received, elChan,
                   chanCloses, tasks, finished, timers, calls, closePc, closeCalls,
                   closeRet, closePanic>>

\* runIntervals, the head of the loop: return when the context is done, else
\* popInterval
RunIntervalsTop ==
    /\ Alive
    /\ intvRun.pc = "top"
    /\ IF ctxDone
       THEN /\ intvRun' = [intvRun EXCEPT !.pc = "returned"]
            /\ UNCHANGED intervals
       ELSE IF intervals = {}
       THEN /\ intvRun' = [intvRun EXCEPT !.pc = "blocked"]
            /\ UNCHANGED intervals
       ELSE \E x \in Least(intervals) :
            /\ intvRun' = [pc |-> "catchup", item |-> x, turn |-> 0]
            /\ intervals' = intervals \ {x}
    /\ UNCHANGED <<schedules, registerHung, ran, schedRun>>
    /\ UNCHANGED extVars
    /\ UNCHANGED <<now, appConn, appCancel, ctxDone, listener, entityListeners,
                   registerPanics, nextId, entityListenersId, startPc, startupTodo,
                   startupCur, readerPc, serverFrames, framesRead, received, elChan,
                   chanCloses, tasks, finished, timers, calls, closePc, closeCalls,
                   closeRet, closePanic>>

\* runIntervals, `for i.nextRunTime.Before(time.Now())`: one turn of the loop
\* (maybeRunCallback, requeue, pop), or the way out to the sleep
RunIntervalsCatchUp ==
    /\ Alive
    /\ intvRun.pc = "catchup"
    /\ intvRun.item.nextRunTime < now => WithinHorizon(intvRun.item)
    /\ IF intvRun.item.nextRunTime < now
       THEN \E fetch \in FetchOutcomes(intvRun.item) :
            LET after == intervals \cup {RequeuedInterval(intvRun.item)}
            IN /\ ran' = IntervalRan(intvRun.item, fetch)
               /\ IF IntervalRuns(intvRun.item, fetch) /\ ~CallbackSpawned
                  THEN /\ intvRun' = [intvRun EXCEPT !.pc = "incallback"]
                       /\ UNCHANGED intervals
                  ELSE \E x \in Least(after) :
                     /\ intvRun' = [pc |-> "catchup", item |-> x, turn |-> 1 - intvRun.turn]
                     /\ intervals' = after \ {x}
       ELSE /\ intvRun' = [intvRun EXCEPT !.pc = "sleep", !.turn = 0]
            /\ UNCHANGED <<intervals, ran>>
    /\ UNCHANGED <<schedules, registerHung, schedRun>>
    /\ UNCHANGED extVars
    /\ UNCHANGED <<now, appConn, appCancel, ctxDone, listener, entityListeners,
                   registerPanics, nextId, entityListenersId, startPc, startupTodo,
                   startupCur, readerPc, serverFrames, framesRead, received, elChan,
                   chanCloses, tasks, finished, timers, calls, closePc, closeCalls,
                   closeRet, closePanic>>

\* runIntervals, `case <-time.After(time.Until(i.nextRunTime))`, then
\* maybeRunCallback and requeue
RunIntervalsWake ==
    /\ Alive
    /\ intvRun.pc = "sleep"
    /\ intvRun.item.nextRunTime <= now
    /\ WithinHorizon(intvRun.item)
    /\ \E fetch \in FetchOutcomes(intvRun.item) :
          /\ ran' = IntervalRan(intvRun.item, fetch)
          /\ IF IntervalRuns(intvRun.item, fetch) /\ ~CallbackSpawned
             THEN /\ intvRun' = [intvRun EXCEPT !.pc = "incallback"]
                  /\ UNCHANGED intervals
             ELSE /\ intervals' = intervals \cup {RequeuedInterval(intvRun.item)}
                  /\ intvRun' = [pc |-> "top", item |-> NoItem, turn |-> 0]
    /\ UNCHANGED <<schedules, registerHung, schedRun>>
    /\ UNCHANGED extVars
    /\ UNCHANGED <<now, appConn, appCancel, ctxDone, listener, entityListeners,
                   registerPanics, nextId, entityListenersId, startPc, startupTodo,
                   startupCur, readerPc, serverFrames, framesRead, received, elChan,
                   chanCloses, tasks, finished, timers, calls, closePc, closeCalls,
                   closeRet, closePanic>>

\* runIntervals, `case <-a.ctx.Done()` of the sleep
RunIntervalsCancelled ==
    /\ Alive
    /\ intvRun.pc = "sleep"
    /\ ctxDone
    /\ intvRun' = [intvRun EXCEPT !.pc = "returned"]
    /\ UNCHANGED <<schedVars, schedRun>>
    /\ UNCHANGED extVars
    /\ UNCHANGED <<now, appConn, appCancel, ctxDone, listener, entityListeners,
                   registerPanics, nextId, entityListenersId, startPc, startupTodo,
                   startupCur, readerPc, serverFrames, framesRead, received, elChan,
                   chanCloses, tasks, finished, timers, calls, closePc, closeCalls,
                   closeRet, closePanic>>

\* -------------------------------------------------------------- handshake
\* GetEquivalentWebsocketScheme: (scheme, error)
GetEquivalentWebsocketScheme(scheme) ==
    IF scheme = "http" THEN [scheme |-> "ws", err |-> "nil"]
    ELSE IF scheme = "https" THEN [scheme |-> "wss", err |-> "nil"]
    ELSE IF scheme = "ws" \/ scheme = "wss" THEN [scheme |-> scheme, err |-> "nil"]
    ELSE [scheme |-> "", err |-> "unexpected scheme"]

\* What the server may put on the socket next: a JSON object with a type, a
\* text that is not a JSON object with a string type, or nothing before the
\* read fails.
ServerFrames ==
    {[json |-> TRUE, type |-> ty] : ty \in {"auth_required", "auth_ok", "auth_invalid", "result"}}
    \cup {[json |-> FALSE, type |-> "text"], [json |-> FALSE, type |-> "eof"]}

\* ReadMessage[T]: conn.ReadMessage, then json.Unmarshal into a struct with
\* the field MsgType: (result, error)
ReadMessage(frame) ==
    IF frame.type = "eof" THEN [MsgType |-> "", err |-> "read error"]
    ELSE IF ~frame.json THEN [MsgType |-> "", err |-> "json error"]
    ELSE [MsgType |-> frame.type, err |-> "nil"]

\* VerifyAuthResponse: the error it returns
VerifyAuthResponse(frame) ==
    IF ReadMessage(frame).err # "nil" THEN ReadMessage(frame).err
    ELSE IF ReadMessage(frame).MsgType # "auth_ok" THEN "ErrInvalidToken"
    ELSE "nil"

\* `return nil, nil, nil, err`
HandshakeFailed(err) == [conn |-> "nil", ctx |-> "nil", cancel |-> "nil", err |-> err]

\* Every step of the handshake leaves the rest of the program alone.
HandshakeFrame ==
    /\ UNCHANGED <<writePath, idCalls, rangeCall, entityCall, listenCall, evalCall>>
    /\ UNCHANGED <<schedVars, runVars, schedPassed, panicVars, eventVars, pureVars>>
    /\ UNCHANGED <<now, appConn, appCancel, ctxDone, listener, entityListeners,
                   registerPanics, nextId, entityListenersId, startPc, startupTodo,
                   startupCur, readerPc, serverFrames, framesRead, received, elChan,
                   chanCloses, tasks, finished, timers, calls, closePc, closeCalls,
                   closeRet, closePanic>>

\* ConnectionFromUri, lines 60-79: the WebSocket URL is built and dialled
HandshakeDial ==
    /\ handshake.pc = "dial"
    /\ IF GetEquivalentWebsocketScheme(handshake.scheme).err # "nil"
       THEN handshake' = [handshake EXCEPT !.pc = "returned",
                                           !.ret = HandshakeFailed("failed to build WebSocket URL")]
       ELSE IF ~handshake.dialOk
       THEN handshake' = [handshake EXCEPT !.pc = "returned",
                                           !.ret = HandshakeFailed("dial error")]
       ELSE handshake' = [handshake EXCEPT !.pc = "read"]
    /\ HandshakeFrame

\* ConnectionFromUri, lines 81-91: the first frame is read
HandshakeRead ==
    /\ handshake.pc = "read"
    /\ LET frame == handshake.frames[1]
           msg == ReadMessage(frame)
       IN IF msg.err # "nil"
          THEN handshake' = [handshake EXCEPT !.pc = "returned", !.read = Append(@, frame),
                                              !.ret = HandshakeFailed(msg.err)]
          ELSE IF msg.MsgType # "auth_required"
          THEN handshake' = [handshake EXCEPT !.pc = "returned", !.read = Append(@, frame),
                                              !.ret = HandshakeFailed("expected auth_required message")]
          ELSE handshake' = [handshake EXCEPT !.pc = "send", !.read = Append(@, frame)]
    /\ HandshakeFrame

\* ConnectionFromUri, lines 93-98, and SendAuthMessage
HandshakeSend ==
    /\ handshake.pc = "send"
    /\ IF handshake.writeOk
       THEN handshake' = [handshake EXCEPT
                !.pc = "verify",
                !.sent = Append(@, [type |-> "auth", access_token |-> handshake.token])]
       ELSE handshake' = [handshake EXCEPT !.pc = "returned",
                                           !.ret = HandshakeFailed("write error")]
    /\ HandshakeFrame

\* ConnectionFromUri, lines 100-110, and VerifyAuthResponse
HandshakeVerify ==
    /\ handshake.pc = "verify"
    /\ LET frame == handshake.frames[2]
           err == VerifyAuthResponse(frame)
       IN IF err # "nil"
          THEN handshake' = [handshake EXCEPT !.pc = "returned", !.read = Append(@, frame),
                                              !.ret = HandshakeFailed(err)]
          ELSE handshake' = [handshake EXCEPT
                   !.pc = "returned", !.read = Append(@, frame),
                   !.ret = [conn |-> "open", ctx |-> "live", cancel |-> "set", err |-> "nil"]]
    /\ HandshakeFrame

\* ------------------------------------------------------------- write path
\* The goroutines that write JSON after the handshake: a service call made
\* by a callback, a subscription, and Event.Fire.
Writers == {"call_service", "subscribe_events", "fire_event"}

MutexNeverHeld(mutex) == FALSE

\* sync.Mutex: Lock waits while another goroutine holds the mutex
MutexHeld(mutex) == mutex # ""

\* Every step of the write path leaves the rest of the program alone.
WriteFrame ==
    /\ UNCHANGED <<handshake, idCalls, rangeCall, entityCall, listenCall, evalCall>>
    /\ UNCHANGED <<schedVars, runVars, schedPassed, panicVars, eventVars, pureVars>>
    /\ UNCHANGED <<now, appConn, appCancel, ctxDone, listener, entityListeners,
                   registerPanics, nextId, entityListenersId, startPc, startupTodo,
                   startupCur, readerPc, serverFrames, framesRead, received, elChan,
                   chanCloses, tasks, finished, timers, calls, closePc, closeCalls,
                   closeRet, closePanic>>

\* a goroutine calls conn.WriteMessage(req)
WriteCall(w) ==
    /\ writePath.pc[w] = "idle"
    /\ writePath.calls[w] < MaxWrites
    /\ writePath' = [writePath EXCEPT !.pc[w] = "lock", !.calls[w] = @ + 1]
    /\ WriteFrame

\* WriteMessage: `w.mutex.Lock()`
WriteLock(w) ==
    /\ writePath.pc[w] = "lock"
    /\ ~MutexHeld(writePath.mutex)
    /\ writePath' = [writePath EXCEPT !.pc[w] = "json", !.mutex = w]
    /\ WriteFrame

\* WriteMessage: `w.Conn.WriteJSON(msg)` begins; it fails before it writes,
\* and the deferred Unlock runs, or the first part of the frame goes out
WriteJSONBegin(w) ==
    /\ writePath.pc[w] = "json"
    /\ \E ok \in BOOLEAN :
          IF ok
          THEN writePath' = [writePath EXCEPT
                   !.pc[w] = "flush",
                   !.wire = Append(@, [writer |-> w, n |-> writePath.calls[w], part |-> "head"])]
          ELSE writePath' = [writePath EXCEPT
                   !.pc[w] = "idle",
                   !.mutex = IF @ = w THEN "" ELSE @]
    /\ WriteFrame

\* WriteMessage: WriteJSON writes the rest of the frame and returns, and the
\* deferred Unlock runs
WriteJSONEnd(w) ==
    /\ writePath.pc[w] = "flush"
    /\ writePath' = [writePath EXCEPT
           !.pc[w] = "idle",
           !.mutex = IF @ = w THEN "" ELSE @,
           !.wire = Append(@, [writer |-> w, n |-> writePath.calls[w], part |-> "tail"])]
    /\ WriteFrame

\* ---------------------------------------------------------------- NextId
\* The goroutines that call internal.NextId.
Callers == {"g1", "g2", "g3"}

AddIsLoadThenStore == FALSE

\* `id.Add(1)` on an atomic.Int64 is one step: no other goroutine runs
\* between its read and its write of the counter
AddIsAtomic == TRUE

\* NextId called by goroutine c.  Were the add not atomic, c would first load
\* the counter and store and return the sum in a later step.
CallNextId(c) ==
    /\ IF idCalls.pc[c] = "idle"
       THEN /\ idCalls.calls[c] < MaxIdCalls
            /\ IF AddIsAtomic
               THEN /\ nextId' = IdAfter(nextId)
                    /\ idCalls' = [idCalls EXCEPT
                          !.calls[c] = @ + 1,
                          !.returned = Append(@, [caller |-> c, id |-> IdAfter(nextId)])]
               ELSE /\ idCalls' = [idCalls EXCEPT !.calls[c] = @ + 1,
                                                  !.pc[c] = "loaded",
                                                  !.loaded[c] = nextId]
                    /\ UNCHANGED nextId
       ELSE /\ nextId' = IdAfter(idCalls.loaded[c])
            /\ idCalls' = [idCalls EXCEPT
                  !.pc[c] = "idle",
                  !.returned = Append(@, [caller |-> c, id |-> IdAfter(idCalls.loaded[c])])]
    /\ UNCHANGED <<handshake, writePath, rangeCall, entityCall, listenCall, evalCall>>
    /\ UNCHANGED <<schedVars, runVars, schedPassed, panicVars, eventVars, pureVars>>
    /\ UNCHANGED <<now, appConn, appCancel, ctxDone, listener, entityListeners,
                   registerPanics, entityListenersId, startPc, startupTodo,
                   startupCur, readerPc, serverFrames, framesRead, received, elChan,
                   chanCloses, tasks, finished, timers, calls, closePc, closeCalls,
                   closeRet, closePanic>>

\* ------------------------------------------------------------- time range
\* The "HH:MM" strings a time range is given: none ("") or a minute of the day.
TimeStrings == {<<>>} \cup {<<m>> : m \in 0..(DayLen - 1)}

\* CheckWithinTimeRange(startTime, endTime) is called at rangeCall.now.
CallCheckWithinTimeRange ==
    /\ rangeCall.pc = "call"
    /\ rangeCall' = [rangeCall EXCEPT
          !.pc = "returned",
          !.fail = CheckWithinTimeRange(rangeCall.startTime, rangeCall.endTime, rangeCall.now)]
    /\ UNCHANGED <<handshake, writePath, idCalls, entityCall, listenCall, evalCall>>
    /\ UNCHANGED <<schedVars, runVars, schedPassed, panicVars, eventVars, pureVars>>
    /\ UNCHANGED <<now, appConn, appCancel, ctxDone, listener, entityListeners,
                   registerPanics, nextId, entityListenersId, startPc, startupTodo,
                   startupCur, readerPc, serverFrames, framesRead, received, elChan,
                   chanCloses, tasks, finished, timers, calls, closePc, closeCalls,
                   closeRet, closePanic>>

\* ----------------------------------------------------------- entity checks
\* The (entity, state, runOnError) entries of EnabledWhen and DisabledWhen.
EnabledDisabledInfos ==
    [Entity : Entities, State : States, RunOnError : BOOLEAN]

\* The lists of at most two entries.
InfoLists ==
    {<<>>} \cup {<<a>> : a \in EnabledDisabledInfos}
    \cup {<<a, b>> : a \in EnabledDisabledInfos, b \in EnabledDisabledInfos}

\* CheckEnabledEntity(state, infos) and CheckDisabledEntity(state, infos) are
\* called; the requests of the first find entityCall.fetch.en, those of the
\* second entityCall.fetch.dis.
CallCheckEntity ==
    /\ entityCall.pc = "call"
    /\ entityCall' = [entityCall EXCEPT
          !.pc = "returned",
          !.enabledFail = CheckEnabledEntity(entityCall.fetch.en, entityCall.infos),
          !.disabledFail = CheckDisabledEntity(entityCall.fetch.dis, entityCall.infos)]
    /\ UNCHANGED <<handshake, writePath, idCalls, rangeCall, listenCall, evalCall>>
    /\ UNCHANGED <<schedVars, runVars, schedPassed, panicVars, eventVars, pureVars>>
    /\ UNCHANGED <<now, appConn, appCancel, ctxDone, listener, entityListeners,
                   registerPanics, nextId, entityListenersId, startPc, startupTodo,
                   startupCur, readerPc, serverFrames, framesRead, received, elChan,
                   chanCloses, tasks, finished, timers, calls, closePc, closeCalls,
                   closeRet, closePanic>>

\* -------------------------------------------------- ListenWebsocket alone
\* The frames a connection can deliver: raw bytes that json.Unmarshal rejects
\* (valid = FALSE), an event (no "success" key) and a result with "success".
RawFrames ==
    {[valid |-> FALSE, type |-> "", id |-> 0, success |-> "absent"]}
    \cup {[valid |-> TRUE, type |-> "event", id |-> i, success |-> "absent"] : i \in 1..2}
    \cup {[valid |-> TRUE, type |-> "result", id |-> i, success |-> s] :
            i \in 1..2, s \in {"true", "false"}}

\* `base := BaseMessage{Success: true}; err = json.Unmarshal(raw, &base)`:
\* Success keeps its default unless the frame says "success": false.
Unmarshal(raw) ==
    [err |-> ~raw.valid, Type |-> raw.type, Id |-> raw.id,
     Success |-> raw.success # "false"]

\* `ChannelMessage{Type: base.Type, Id: base.Id, Success: base.Success, Raw: raw}`
ChannelMessageOf(base, raw) ==
    [Id |-> base.Id, Type |-> base.Type, Success |-> base.Success, Raw |-> raw]

SkipClosesChannel(lc) ==
    [lc EXCEPT !.pos = @ + 1, !.closed = @ + 1, !.pc = "failed"]

\* `if err != nil { slog.Error("Error unmarshalling message", ...); continue }`
SkipFrame(lc) == [lc EXCEPT !.pos = @ + 1]

\* `select { case c <- channelMessage: default: close(c); return }`
SendOrClose(lc, m) ==
    IF Len(lc.c) < ChanCap
    THEN [lc EXCEPT !.pos = @ + 1, !.c = Append(@, m)]
    ELSE [lc EXCEPT !.pos = @ + 1, !.closed = @ + 1, !.pc = "full"]

\* One iteration of the loop of ListenWebsocket in which ReadMessageRaw
\* returns the next frame of the connection.
ListenFrame ==
    /\ listenCall.pc = "running"
    /\ listenCall.pos < Len(listenCall.frames)
    /\ LET raw == listenCall.frames[listenCall.pos + 1]
           base == Unmarshal(raw)
       IN listenCall' = IF base.err
                        THEN SkipFrame(listenCall)
                        ELSE SendOrClose(listenCall, ChannelMessageOf(base, raw))
    /\ UNCHANGED <<handshake, writePath, idCalls, rangeCall, entityCall, evalCall>>
    /\ UNCHANGED <<schedVars, runVars, schedPassed, panicVars, eventVars, pureVars>>
    /\ UNCHANGED <<now, appConn, appCancel, ctxDone, listener, entityListeners,
                   registerPanics, nextId, entityListenersId, startPc, startupTodo,
                   startupCur, readerPc, serverFrames, framesRead, received, elChan,
                   chanCloses, tasks, finished, timers, calls, closePc, closeCalls,
                   closeRet, closePanic>>

\* An iteration in which ReadMessageRaw fails: `close(c); break`
ListenReadError ==
    /\ listenCall.pc = "running"
    /\ listenCall' = [listenCall EXCEPT !.closed = @ + 1, !.pc = "failed"]
    /\ UNCHANGED <<handshake, writePath, idCalls, rangeCall, entityCall, evalCall>>
    /\ UNCHANGED <<schedVars, runVars, schedPassed, panicVars, eventVars, pureVars>>
    /\ UNCHANGED <<now, appConn, appCancel, ctxDone, listener, entityListeners,
                   registerPanics, nextId, entityListenersId, startPc, startupTodo,
                   startupCur, readerPc, serverFrames, framesRead, received, elChan,
                   chanCloses, tasks, finished, timers, calls, closePc, closeCalls,
                   closeRet, closePanic>>

\* The receiving end, `case msg, ok := <-elChan` in Start, takes a message.
ListenReceive ==
    /\ listenCall.pc # "none"
    /\ listenCall.c # <<>>
    /\ listenCall' = [listenCall EXCEPT !.c = Tail(@), !.got = Append(@, Head(listenCall.c))]
    /\ UNCHANGED <<handshake, writePath, idCalls, rangeCall, entityCall, evalCall>>
    /\ UNCHANGED <<schedVars, runVars, schedPassed, panicVars, eventVars, pureVars>>
    /\ UNCHANGED <<now, appConn, appCancel, ctxDone, listener, entityListeners,
                   registerPanics, nextId, entityListenersId, startPc, startupTodo,
                   startupCur, readerPc, serverFrames, framesRead, received, elChan,
                   chanCloses, tasks, finished, timers, calls, closePc, closeCalls,
                   closeRet, closePanic>>

\* ------------------------------------------------- one evaluation of an item
\* runSchedules, on the schedule it took from the queue: `sched.maybeRunCallback(a)`
\* and then `requeueSchedule(a, sched)`.  The state requests of the checks
\* find evalCall.fetch, each request its own answer; until `go s.callback`
\* and the Put the loop writes nothing.
EvaluateSchedule ==
    /\ evalCall.pc = "call"
    /\ evalCall.kind = "schedule"
    /\ evalCall' = [evalCall EXCEPT
          !.pc = "returned",
          !.spawned = ScheduleRuns(evalCall.item, evalCall.fetch),
          !.putBack = <<RequeuedSchedule(evalCall.item)>>]
    /\ UNCHANGED <<handshake, writePath, idCalls, rangeCall, entityCall, listenCall>>
    /\ UNCHANGED <<schedVars, runVars, schedPassed, panicVars, eventVars, pureVars>>
    /\ UNCHANGED <<now, appConn, appCancel, ctxDone, listener, entityListeners,
                   registerPanics, nextId, entityListenersId, startPc, startupTodo,
                   startupCur, readerPc, serverFrames, framesRead, received, elChan,
                   chanCloses, tasks, finished, timers, calls, closePc, closeCalls,
                   closeRet, closePanic>>

\* runIntervals, on the interval it took from the queue: `i.maybeRunCallback(a)`
\* and then `requeueInterval(a, i)`, with the answers of evalCall.fetch.
EvaluateInterval ==
    /\ evalCall.pc = "call"
    /\ evalCall.kind = "interval"
    /\ evalCall' = [evalCall EXCEPT
          !.pc = "returned",
          !.spawned = IntervalRuns(evalCall.item, evalCall.fetch),
          !.putBack = <<RequeuedInterval(evalCall.item)>>]
    /\ UNCHANGED <<handshake, writePath, idCalls, rangeCall, entityCall, listenCall>>
    /\ UNCHANGED <<schedVars, runVars, schedPassed, panicVars, eventVars, pureVars>>
    /\ UNCHANGED <<now, appConn, appCancel, ctxDone, listener, entityListeners,
                   registerPanics, nextId, entityListenersId, startPc, startupTodo,
                   startupCur, readerPc, serverFrames, framesRead, received, elChan,
                   chanCloses, tasks, finished, timers, calls, closePc, closeCalls,
                   closeRet, closePanic>>

\* --------------------------------------------------------------- requests
\* NewBaseServiceRequest and Event.Fire: a request is built with the next id
\* of the process.
ServiceRequest(type) ==
    /\ Alive
    /\ Cardinality(issued) < MaxRequests
    /\ nextId' = NextId
    /\ issued' = issued \cup {[id |-> NextId, type |-> type]}
    /\ UNCHANGED <<eventListeners, subFrames, regCall, startId, schedPassed, panicVars,
                   pureVars, auxVars>>
    /\ UNCHANGED <<schedVars, runVars>>
    /\ UNCHANGED <<now, appConn, appCancel, ctxDone, listener, entityListeners,
                   registerPanics, entityListenersId, startPc, startupTodo,
                   startupCur, readerPc, serverFrames, framesRead, received, elChan,
                   chanCloses, tasks, finished, timers, calls, closePc, closeCalls,
                   closeRet, closePanic>>

\* --------------------------------------------------------------- triggers
\* The clock of package scheduling counts seconds from the Unix epoch, which
\* is a local midnight.  A *time.Time is <<>> (nil) or <<t>>.
SecPerHour == SecPerMin * MinPerHour
SecPerDay == SecPerHour * HoursPerDay

SecondOf(t) == t % SecPerMin
MinuteOf(t) == (t \div SecPerMin) % MinPerHour
HourOf(t) == (t \div SecPerHour) % HoursPerDay
DateOf(t) == t \div SecPerDay

\* carbon's SetHour and SetMinute replace one field and keep the others
SetHour(t, h) == t - HourOf(t) * SecPerHour + h * SecPerHour
SetMinute(t, m) == t - MinuteOf(t) * SecPerMin + m * SecPerMin

\* FixedTimeTrigger.NextTime
FixedTimeNextTime(t, n) ==
    LET next == SetMinute(SetHour(n, t.Hour), t.Minute)
    IN IF ~(next > n) THEN <<next + SecPerDay>> ELSE <<next>>

\* sunrise.SunriseSunset for a place and a date: the two instants, or zero
\* times (<<>>) on a day the sun does not rise or set.  The place on the equator
\* has both every day, the polar one on odd days only.
SunriseSunset(place, date) ==
    IF place = "polar" /\ date % 2 = 0
    THEN [rise |-> <<>>, set |-> <<>>]
    ELSE [rise |-> <<date * SecPerDay + SecPerHour>>,
          set |-> <<date * SecPerDay + (HoursPerDay - 1) * SecPerHour + 1>>]

\* SunTrigger.NextTime
SunNextTime(t, n) ==
    LET sun == IF t.sunset THEN SunriseSunset(t.place, DateOf(n)).set
               ELSE SunriseSunset(t.place, DateOf(n)).rise
    IN IF sun = <<>> THEN <<>>
       ELSE IF t.offset # 0 THEN <<sun[1] + t.offset>>
       ELSE sun

\* a field of a cron expression: "*" (-1) or a number
CronMatches(field, v) == field = 0 - 1 \/ field = v

\* CronTrigger.NextTime: the first minute after now that the minute and hour
\* fields match
CronNextTime(t, n) ==
    LET fires == {x \in (n + 1)..(n + SecPerDay) :
                    /\ SecondOf(x) = 0
                    /\ CronMatches(t.minute, MinuteOf(x))
                    /\ CronMatches(t.hour, HourOf(x))}
    IN <<CHOOSE x \in fires : \A y \in fires : x <= y>>

RECURSIVE Sum(_)
Sum(ds) == IF ds = <<>> THEN 0 ELSE Head(ds) + Sum(Tail(ds))

\* time.Time.Sub: the difference, or the greatest Duration when it is more
Sub(a, b) == IF a - b > MaxDuration THEN MaxDuration ELSE a - b

\* IntervalTrigger.NextTime, the loop over the offsets from cycle
RECURSIVE IntervalWalk(_, _, _, _)
IntervalWalk(ds, cycle, n, otherwise) ==
    IF ds = <<>> THEN otherwise
    ELSE IF cycle + Head(ds) > n THEN <<cycle + Head(ds)>>
    ELSE IntervalWalk(Tail(ds), cycle + Head(ds), n, otherwise)

\* IntervalTrigger.NextTime; a zero epoch stands for the Unix epoch
IntervalNextTime(t, n) ==
    LET totalDuration == Sum(t.intervals)
        epoch == IF t.epoch = <<>> THEN 0 ELSE t.epoch[1]
        cyclesSinceEpoch == Sub(n, epoch) \div totalDuration
        currentCycleStart == epoch + cyclesSinceEpoch * totalDuration
    IN IF totalDuration = 0 THEN <<>>
       ELSE IF n < epoch THEN <<epoch + t.intervals[1]>>
       ELSE IntervalWalk(t.intervals, currentCycleStart, n,
                         <<currentCycleStart + totalDuration + t.intervals[1]>>)

\* Trigger.NextTime of a trigger that is not a composite
LeafNextTime(t, n) ==
    IF t.kind = "fixed" THEN FixedTimeNextTime(t, n)
    ELSE IF t.kind = "sun" THEN SunNextTime(t, n)
    ELSE IF t.kind = "cron" THEN CronNextTime(t, n)
    ELSE IntervalNextTime(t, n)

BetterUnlessNil(potential, best) ==
    potential # <<>> /\ best # <<>> /\ potential[1] < best[1]

\* `potential != nil && (best == nil || potential.Before(*best))`
Better(potential, best) ==
    potential # <<>> /\ (best = <<>> \/ potential[1] < best[1])

\* CompositeDailySchedule.NextTime, the loop over c.triggers[1:]
RECURSIVE CompositeWalk(_, _, _)
CompositeWalk(triggers, best, n) ==
    IF triggers = <<>> THEN best
    ELSE LET potential == LeafNextTime(Head(triggers), n)
         IN CompositeWalk(Tail(triggers),
                          IF Better(potential, best) THEN potential ELSE best, n)

\* CompositeDailySchedule.NextTime
CompositeNextTime(t, n) ==
    CompositeWalk(Tail(t.triggers), LeafNextTime(t.triggers[1], n), n)

\* Trigger.NextTime
NextTime(t, n) ==
    IF t.kind = "composite" THEN CompositeNextTime(t, n) ELSE LeafNextTime(t, n)

\* The triggers the constructors give.
FixedTimeTriggers ==
    {[kind |-> "fixed", Hour |-> h, Minute |-> m] :
        h \in 0..(HoursPerDay - 1), m \in 0..(MinPerHour - 1)}

SunTriggers ==
    {[kind |-> "sun", place |-> p, sunset |-> b, offset |-> o] :
        p \in {"equator", "polar"}, b \in BOOLEAN,
        o \in {0 - SecPerHour, 0, SecPerHour}}

CronTriggers ==
    {[kind |-> "cron", minute |-> m, hour |-> h] :
        m \in (0 - 1)..(MinPerHour - 1), h \in (0 - 1)..(HoursPerDay - 1)}

\* NewIntervalTrigger takes positive durations only; WithEpoch sets the epoch
IntervalTriggers ==
    {[kind |-> "interval", intervals |-> ds, epoch |-> e] :
        ds \in {<<1>>, <<2>>, <<3>>, <<1, 2>>, <<2, 1>>, <<1, 1, 2>>},
        e \in {<<>>, <<5>>, <<5 - MaxDuration>>}}

\* the children a composite is built from here
CompositeChildren ==
    {[kind |-> "fixed", Hour |-> 0, Minute |-> 0],
     [kind |-> "fixed", Hour |-> HoursPerDay - 1, Minute |-> MinPerHour - 1],
     [kind |-> "sun", place |-> "equator", sunset |-> FALSE, offset |-> 0],
     [kind |-> "sun", place |-> "polar", sunset |-> FALSE, offset |-> 0],
     [kind |-> "sun", place |-> "polar", sunset |-> TRUE, offset |-> 0]}

CompositeTriggers ==
    {[kind |-> "composite", triggers |-> <<a, b>>] :
        a \in CompositeChildren, b \in CompositeChildren}
    \cup {[kind |-> "composite", triggers |-> <<a, b, c>>] :
        a \in CompositeChildren, b \in CompositeChildren, c \in CompositeChildren}

TriggerBuilds ==
    FixedTimeTriggers \cup SunTriggers \cup CronTriggers \cup IntervalTriggers
    \cup CompositeTriggers

\* the time the next NextTime call is given: the first one, then the result
\* of the call before
NextArg == IF trigCalls = <<>> THEN trigNow ELSE trigCalls[Len(trigCalls)].next[1]

\* NextTime is called on the trigger, first with trigNow and then with its
\* own result.
CallNextTime ==
    /\ trigger # NoTrigger
    /\ Len(trigCalls) < MaxIter
    /\ trigCalls # <<>> => trigCalls[Len(trigCalls)].next # <<>>
    /\ trigCalls' = Append(trigCalls, [now |-> NextArg, next |-> NextTime(trigger, NextArg)])
    /\ UNCHANGED <<trigger, trigNow, buildVars, auxVars>>
    /\ UNCHANGED <<schedVars, runVars, schedPassed, panicVars, eventVars>>
    /\ UNCHANGED <<now, appConn, appCancel, ctxDone, listener, entityListeners,
                   registerPanics, nextId, entityListenersId, startPc, startupTodo,
                   startupCur, readerPc, serverFrames, framesRead, received, elChan,
                   chanCloses, tasks, finished, timers, calls, closePc, closeCalls,
                   closeRet, closePanic>>

\* ---------------------------------------------------------------- builder
\* Trigger.Hash: FNV-64 of the formatted parameters.  The hash is stood for
\* by the text that is hashed (the format and its arguments): FNV is taken to
\* give different texts of this kind different sums.
Hash(t) ==
    IF t.kind = "fixed" THEN <<"%d:%d", t.Hour, t.Minute>>
    ELSE <<"%f:%f:%t:%d", t.place, t.sunset, t.offset>>

\* time.ParseDuration of the offsets passed here, on the trigger clock (half
\* an hour is MinPerHour \div 2 minutes); <<>> is an error
ParseDuration(str) ==
    IF str = "1h" \/ str = "60m" THEN <<SecPerHour>>
    ELSE IF str = "-1h" THEN <<0 - SecPerHour>>
    ELSE IF str = "30m" THEN <<(MinPerHour \div 2) * SecPerMin>>
    ELSE IF str = "-30m" THEN <<0 - (MinPerHour \div 2) * SecPerMin>>
    ELSE IF str = "0s" THEN <<0>>
    ELSE <<>>

HashNeverPresent(b, hash) == FALSE

\* `if _, ok := b.hashes[hash]; ok`
HashPresent(b, hash) == hash \in b.hashes

\* tryAddTrigger
TryAddTrigger(b, t) ==
    IF HashPresent(b, Hash(t))
    THEN [b EXCEPT !.errors = Append(@, "duplicate trigger"), !.last = t]
    ELSE [b EXCEPT !.triggers = Append(@, t),
                   !.hashes = @ \cup {Hash(t)},
                   !.last = t]

\* onSun; the SunTrigger it builds has latitude and longitude 0
OnSun(b, sunset, offset) ==
    IF offset = <<>>
    THEN [b EXCEPT !.errors = Append(@, "no offset provided for sun"), !.last = NoTrigger]
    ELSE IF ParseDuration(offset[1]) = <<>>
    THEN [b EXCEPT !.errors = Append(@, "time: invalid duration"), !.last = NoTrigger]
    ELSE TryAddTrigger(b, [kind |-> "sun", place |-> "equator", sunset |-> sunset,
                           offset |-> ParseDuration(offset[1])[1]])

\* what the calls of this section leave alone
BuilderFrame ==
    /\ UNCHANGED <<trigVars, schedVars, runVars, schedPassed, panicVars, eventVars, auxVars>>
    /\ UNCHANGED <<now, appConn, appCancel, ctxDone, listener, entityListeners,
                   registerPanics, nextId, entityListenersId, startPc, startupTodo,
                   startupCur, readerPc, serverFrames, framesRead, received, elChan,
                   chanCloses, tasks, finished, timers, calls, closePc, closeCalls,
                   closeRet, closePanic>>

\* the calls made on the builder so far are fewer than MaxBuilderCalls
MoreCalls == Len(builder.errors) + Len(builder.triggers) < MaxBuilderCalls

\* OnSunrise(offset...)
OnSunrise(offset) ==
    /\ MoreCalls
    /\ builder' = OnSun(builder, FALSE, offset)
    /\ UNCHANGED built
    /\ BuilderFrame

\* OnSunset(offset...)
OnSunset(offset) ==
    /\ MoreCalls
    /\ builder' = OnSun(builder, TRUE, offset)
    /\ UNCHANGED built
    /\ BuilderFrame

\* OnFixedTime(hour, minute)
OnFixedTime(hour, minute) ==
    /\ MoreCalls
    /\ LET hourErr == IF hour < 0 \/ hour > 23
                      THEN <<"hour must be between 0 and 23">> ELSE <<>>
           minuteErr == IF minute < 0 \/ minute > 59
                        THEN <<"minute must be between 0 and 59">> ELSE <<>>
       IN IF hourErr \o minuteErr # <<>>
          THEN builder' = [builder EXCEPT !.errors = @ \o hourErr \o minuteErr,
                                          !.last = NoTrigger]
          ELSE builder' = TryAddTrigger(builder,
                              [kind |-> "fixed", Hour |-> hour, Minute |-> minute])
    /\ UNCHANGED built
    /\ BuilderFrame

\* Build: (Trigger, error); the trigger is <<>> when nil
Build ==
    /\ Len(built) < MaxBuilds
    /\ LET errors == IF Len(builder.triggers) = 0
                     THEN Append(builder.errors, "no triggers provided")
                     ELSE builder.errors
       IN /\ builder' = [builder EXCEPT !.errors = errors]
          /\ built' = Append(built,
                IF Len(errors) > 0 THEN [trigger |-> <<>>, err |-> TRUE]
                ELSE IF Len(builder.triggers) = 1
                THEN [trigger |-> <<builder.triggers[1]>>, err |-> FALSE]
                ELSE [trigger |-> <<[kind |-> "composite", triggers |-> builder.triggers]>>,
                      err |-> FALSE])
    /\ BuilderFrame

\* ------------------------------------------------------------------ Spec
\* Dispatch: the runs of a started App whose connection stays up and that
\* nobody closes.
Next ==
    \/ \E etl \in ListenerBuilds : RegisterEntityListeners(etl)
    \/ StartBegin
    \/ StartNextId
    \/ StartSubscribe
    \/ \E eid \in Entities : StartupNext(eid)
    \/ StartupVisit
    \/ StartLoop
    \/ MainRecv
    \/ \E msg \in StateChangedMsgs : ReadFrame(msg)
    \/ \E t \in tasks : DispatchBegin(t)
    \/ \E t \in tasks : DispatchCheck(t)
    \/ \E t \in tasks : DispatchAct(t)
    \/ \E t \in tasks : DispatchStore(t)
    \/ \E t \in tasks : DispatchStamp(t)
    \/ \E i \in 1..Len(timers) : TimerFire(i)
    \/ \E i \in 1..Len(timers) : TimerStamp(i)
    \/ Tick

Spec == Init /\ [][Next]_vars

\* The Go runtime runs a timer's function once it is due, and time passes.
FairSpec == Spec /\ WF_vars(Tick) /\ WF_vars(\E i \in 1..Len(timers) : TimerFire(i))

\* Lifecycle: Start, the reader, the main loop, Close and Cleanup, with no
\* listener registered.
LifecycleMsgs ==
    {[id |-> entityListenersId, eid |-> "a", old |-> "off", new |-> "on", at |-> now]}
    \cup OtherMsgs

NextLifecycle ==
    \/ StartBegin
    \/ StartNextId
    \/ StartSubscribe
    \/ StartLoop
    \/ MainRecv
    \/ MainChanClosed
    \/ MainCtxDone
    \/ ReadError
    \/ ReadMalformed
    \/ \E msg \in LifecycleMsgs : ReadFrame(msg)
    \/ \E t \in tasks : DispatchBegin(t)
    \/ \E t \in tasks : CallEventListeners(t)
    \/ CloseConn
    \/ CloseCancel
    \/ CloseReturn
    \/ Cleanup

SpecLifecycle == InitLifecycle /\ [][NextLifecycle]_vars

\* The goroutine of Start is scheduled: its select takes a case that is ready.
MainLoop == MainRecv \/ MainChanClosed \/ MainCtxDone

FairLifecycle == SpecLifecycle /\ WF_vars(MainLoop)

\* Scheduling: schedules and intervals are registered, Start starts the run
\* loops, the clock runs and Cleanup cancels the context.
InitSched ==
    /\ appConn = "open"
    /\ appCancel = "set"
    /\ serverFrames = 0
    /\ now \in 0..1
    /\ InitRest

RunSchedules ==
    \/ RunSchedulesBegin
    \/ RunSchedulesTop
    \/ RunSchedulesCatchUp
    \/ RunSchedulesWake
    \/ RunSchedulesCancelled

RunIntervals ==
    \/ RunIntervalsBegin
    \/ RunIntervalsTop
    \/ RunIntervalsCatchUp
    \/ RunIntervalsWake
    \/ RunIntervalsCancelled

NextSched ==
    \/ \E s \in ScheduleBuilds : RegisterSchedules(s)
    \/ \E i \in IntervalBuilds : RegisterIntervals(i)
    \/ StartBegin
    \/ StartNextId
    \/ StartSubscribe
    \/ StartLoop
    \/ MainCtxDone
    \/ RunSchedules
    \/ RunIntervals
    \/ Tick
    \/ Cleanup

SpecSched == InitSched /\ [][NextSched]_vars

\* Each goroutine is scheduled while it has a step to take.
FairSched ==
    SpecSched /\ WF_vars(MainLoop) /\ WF_vars(RunSchedules) /\ WF_vars(RunIntervals)

\* The fixed-time schedules and the intervals of the queue-order runs: those
\* RegisterSchedules and RegisterIntervals enqueue, and some that a condition
\* holds back (an exception date today, an allow list without today, an
\* enabled-when entity, an end time that passes, a disabled-when entity).
OrderScheduleBuilds ==
    {s \in ScheduleBuilds : ~s.isSunrise /\ ~s.isSunset}
    \cup {[NewDailySchedule EXCEPT !.exceptionDates = <<0>>],
          [NewDailySchedule EXCEPT !.allowlistDates = <<DayLen>>],
          [NewDailySchedule EXCEPT !.enabledEntities =
               <<[Entity |-> "a", State |-> "on", RunOnError |-> FALSE]>>]}

OrderIntervalBuilds ==
    {i \in IntervalBuilds : i.frequency # 0}
    \cup {[NewInterval EXCEPT !.frequency = 1, !.endTime = <<1>>],
          [NewInterval EXCEPT !.frequency = 1, !.disabledEntities =
               <<[Entity |-> "a", State |-> "on", RunOnError |-> TRUE]>>]}

\* Queue order: two fixed-time schedules, or two intervals, were registered
\* before Start, at the start of the run; the second is one that no condition
\* holds back.
InitOrder ==
    /\ appConn = "open"
    /\ appCancel = "set"
    /\ serverFrames = 0
    /\ now = 0
    /\ ctxDone = FALSE
    /\ registerHung = FALSE
    /\ schedRun = [pc |-> "idle", item |-> NoItem, turn |-> 0]
    /\ intvRun = [pc |-> "idle", item |-> NoItem, turn |-> 0]
    /\ ran = {}
    /\ \/ /\ \E s1 \in OrderScheduleBuilds, s2 \in ScheduleBuilds :
                /\ ~s2.isSunrise /\ ~s2.isSunset
                /\ schedPassed = <<s1, s2>>
                /\ schedules = {RegisteredSchedule(s1, 1, 0), RegisteredSchedule(s2, 2, 0)}
          /\ intervals = {}
       \/ /\ \E i1 \in OrderIntervalBuilds, i2 \in IntervalBuilds :
                /\ i2.frequency # 0
                /\ intervals = {RegisteredInterval(i1, 1, 0), RegisteredInterval(i2, 2, 0)}
          /\ schedPassed = <<>>
          /\ schedules = {}
    /\ processDown = FALSE
    /\ callbackPanicked = FALSE
    /\ eventListeners = [ty \in EventTypes |-> <<>>]
    /\ subFrames = <<>>
    /\ issued = {}
    /\ regCall = NoReg
    /\ startId = 0
    /\ listener = <<>>
    /\ entityListeners = [e \in Entities |-> <<>>]
    /\ registerPanics = 0
    /\ nextId = 0
    /\ entityListenersId = 0
    /\ startPc = "idle"
    /\ startupTodo = {}
    /\ startupCur = <<>>
    /\ readerPc = "idle"
    /\ framesRead = 0
    /\ received = <<>>
    /\ elChan = <<>>
    /\ chanCloses = 0
    /\ tasks = {}
    /\ finished = {}
    /\ timers = <<>>
    /\ calls = <<>>
    /\ closePc = "idle"
    /\ closeCalls = 0
    /\ closeRet = <<>>
    /\ closePanic = FALSE
    /\ PureIdle
    /\ AuxIdle

NextOrder ==
    \/ StartBegin
    \/ StartNextId
    \/ StartSubscribe
    \/ StartLoop
    \/ MainCtxDone
    \/ RunSchedules
    \/ RunIntervals
    \/ Tick
    \/ Cleanup

SpecOrder == InitOrder /\ [][NextOrder]_vars

\* Each goroutine of the queue-order runs is scheduled while it has a step to
\* take.
FairOrder ==
    SpecOrder /\ WF_vars(MainLoop) /\ WF_vars(RunSchedules) /\ WF_vars(RunIntervals)

\* Events: event listeners are registered and requests are built, Start
\* subscribes to state_changed, and the server answers on every id it was sent.
IdsSent ==
    {entityListenersId}
    \cup {subFrames[k].id : k \in 1..Len(subFrames)}
    \cup {r.id : r \in issued}

EventMsgs ==
    {[id |-> i, eid |-> "a", old |-> "off", new |-> "on", at |-> now] : i \in IdsSent}

NextEvents ==
    \/ \E b \in EventListenerBuilds, evl \in 1..MaxEventListeners :
          RegisterEventListeners(evl, b.eventTypes)
    \/ RegisterEventType
    \/ RegisterWrite
    \/ RegisterStore
    \/ \E type \in {"call_service", "fire_event"} : ServiceRequest(type)
    \/ StartBegin
    \/ StartNextId
    \/ StartSubscribe
    \/ StartLoop
    \/ \E msg \in EventMsgs : ReadFrame(msg)
    \/ MainRecv
    \/ \E t \in tasks : DispatchBegin(t)
    \/ \E t \in tasks : CallEventListeners(t)

SpecEvents == Init /\ [][NextEvents]_vars

\* Triggers: a trigger of any variant is called with a time of the first
\* TrigDays days, and then with its own results.
InitTrigger ==
    /\ appConn = "open"
    /\ appCancel = "set"
    /\ serverFrames = 0
    /\ now = 0
    /\ InitProgram
    /\ trigger \in TriggerBuilds
    /\ trigNow \in 0..(TrigDays * SecPerDay - 1)
    /\ trigCalls = <<>>
    /\ builder = NewSchedule
    /\ built = <<>>
    /\ AuxIdle

NextTrigger == CallNextTime

SpecTrigger == InitTrigger /\ [][NextTrigger]_vars

\* Builder: the calls of a DailyScheduleBuilder made by NewSchedule, in any
\* order.
Offsets == {<<>>, <<"1h">>, <<"60m">>, <<"-1h">>, <<"30m">>, <<"-30m">>, <<"0s">>, <<"soon">>}

NextBuilder ==
    \/ \E hour \in {0 - 1, 8, 24}, minute \in {0, 30, 60} : OnFixedTime(hour, minute)
    \/ \E offset \in Offsets : OnSunrise(offset)
    \/ \E offset \in Offsets : OnSunset(offset)
    \/ Build

SpecBuilder == Init /\ [][NextBuilder]_vars

\* Handshake: ConnectionFromUri is called with a URL and a token, against a
\* server that sends any two frames.
InitHandshake ==
    /\ appConn = "nil"
    /\ appCancel = "nil"
    /\ serverFrames = 0
    /\ now = 0
    /\ InitProgram
    /\ PureIdle
    /\ handshake \in
          {[pc |-> "dial", scheme |-> sc, token |-> "token", dialOk |-> d, writeOk |-> w,
            frames |-> <<f1, f2>>, read |-> <<>>, sent |-> <<>>, ret |-> NoCall] :
              sc \in {"http", "https", "ws", "wss", "ftp"}, d \in BOOLEAN, w \in BOOLEAN,
              f1 \in ServerFrames, f2 \in ServerFrames}
    /\ writePath = NoCall
    /\ idCalls = NoCall
    /\ rangeCall = NoCall
    /\ entityCall = NoCall
    /\ listenCall = NoCall
    /\ evalCall = NoCall

NextHandshake ==
    \/ HandshakeDial
    \/ HandshakeRead
    \/ HandshakeSend
    \/ HandshakeVerify

SpecHandshake == InitHandshake /\ [][NextHandshake]_vars

\* Write path: the writers call WriteMessage on the one HAConnection of the
\* App, in any interleaving.
InitWrite ==
    /\ appConn = "open"
    /\ appCancel = "set"
    /\ serverFrames = 0
    /\ now = 0
    /\ InitProgram
    /\ PureIdle
    /\ handshake = NoCall
    /\ writePath = [mutex |-> "", pc |-> [w \in Writers |-> "idle"],
                    calls |-> [w \in Writers |-> 0], wire |-> <<>>]
    /\ idCalls = NoCall
    /\ rangeCall = NoCall
    /\ entityCall = NoCall
    /\ listenCall = NoCall
    /\ evalCall = NoCall

NextWrite ==
    \/ \E w \in Writers : WriteCall(w)
    \/ \E w \in Writers : WriteLock(w)
    \/ \E w \in Writers : WriteJSONBegin(w)
    \/ \E w \in Writers : WriteJSONEnd(w)

SpecWrite == InitWrite /\ [][NextWrite]_vars

\* Ids: goroutines of a fresh process call NextId, in any interleaving.
InitIds ==
    /\ appConn = "open"
    /\ appCancel = "set"
    /\ serverFrames = 0
    /\ now = 0
    /\ InitProgram
    /\ PureIdle
    /\ handshake = NoCall
    /\ writePath = NoCall
    /\ idCalls = [pc |-> [c \in Callers |-> "idle"], calls |-> [c \in Callers |-> 0],
                  loaded |-> [c \in Callers |-> 0], returned |-> <<>>]
    /\ rangeCall = NoCall
    /\ entityCall = NoCall
    /\ listenCall = NoCall
    /\ evalCall = NoCall

NextIds == \E c \in Callers : CallNextId(c)

SpecIds == InitIds /\ [][NextIds]_vars

\* Time range: CheckWithinTimeRange is called with any start and end, at any
\* minute of two days.
InitRange ==
    /\ appConn = "open"
    /\ appCancel = "set"
    /\ serverFrames = 0
    /\ now = 0
    /\ InitProgram
    /\ PureIdle
    /\ handshake = NoCall
    /\ writePath = NoCall
    /\ idCalls = NoCall
    /\ entityCall = NoCall
    /\ listenCall = NoCall
    /\ evalCall = NoCall
    /\ rangeCall \in {[pc |-> "call", startTime |-> st, endTime |-> en, now |-> n, fail |-> FALSE] :
                         st \in TimeStrings, en \in TimeStrings, n \in 0..(2 * DayLen - 1)}

NextRange == CallCheckWithinTimeRange

SpecRange == InitRange /\ [][NextRange]_vars

\* Entity checks: CheckEnabledEntity and CheckDisabledEntity are called with
\* any list of at most two entries, for any outcome of the state fetches.
InitEntityCheck ==
    /\ appConn = "open"
    /\ appCancel = "set"
    /\ serverFrames = 0
    /\ now = 0
    /\ InitProgram
    /\ PureIdle
    /\ handshake = NoCall
    /\ writePath = NoCall
    /\ idCalls = NoCall
    /\ rangeCall = NoCall
    /\ listenCall = NoCall
    /\ evalCall = NoCall
    /\ \E l \in InfoLists :
          entityCall \in {[pc |-> "call", infos |-> l, fetch |-> [en |-> e, dis |-> d],
                            enabledFail |-> FALSE, disabledFail |-> FALSE] :
                              e \in AnswerSeqs(Len(l)), d \in AnswerSeqs(Len(l))}

NextEntityCheck == CallCheckEntity

SpecEntityCheck == InitEntityCheck /\ [][NextEntityCheck]_vars

\* The reader: ListenWebsocket reads any sequence of at most MaxFrames frames
\* into a channel of capacity ChanCap while the other end receives.
FrameSeqs == UNION {[1..n -> RawFrames] : n \in 0..MaxFrames}

InitListen ==
    /\ appConn = "open"
    /\ appCancel = "set"
    /\ serverFrames = 0
    /\ now = 0
    /\ InitProgram
    /\ PureIdle
    /\ handshake = NoCall
    /\ writePath = NoCall
    /\ idCalls = NoCall
    /\ rangeCall = NoCall
    /\ entityCall = NoCall
    /\ evalCall = NoCall
    /\ listenCall \in {[pc |-> "running", frames |-> f, pos |-> 0, c |-> <<>>,
                         got |-> <<>>, closed |-> 0] : f \in FrameSeqs}

NextListen ==
    \/ ListenFrame
    \/ ListenReadError
    \/ ListenReceive

SpecListen == InitListen /\ [][NextListen]_vars

\* One evaluation: a run loop holds an item that was registered at the start
\* of the first day and whose nextRunTime has arrived or is past, at any
\* moment of the first LastEvalDay + 1 days; the item carries any of the
\* conditions, and each state request of the step finds any answer.
LastEvalDay == 1

\* the dates ExceptionDates and OnlyOnDates are given: the first day, a later one
EvalDates == {<<>>, <<0>>, <<LastEvalDay * DayLen>>}

\* the entries EnabledWhen and DisabledWhen are given
EvalInfos ==
    {<<>>,
     <<[Entity |-> "a", State |-> "on", RunOnError |-> FALSE]>>,
     <<[Entity |-> "a", State |-> "on", RunOnError |-> TRUE]>>,
     <<[Entity |-> "a", State |-> "on", RunOnError |-> TRUE],
       [Entity |-> "b", State |-> "off", RunOnError |-> FALSE]>>}

EvalScheduleBuilds ==
    {[NewDailySchedule EXCEPT !.hour = h, !.exceptionDates = x, !.allowlistDates = al,
                              !.enabledEntities = en, !.disabledEntities = dis] :
        h \in {0, DayLen \div 2}, x \in EvalDates, al \in EvalDates,
        en \in EvalInfos, dis \in EvalInfos}

EvalIntervalBuilds ==
    {[NewInterval EXCEPT !.frequency = f, !.startTime = <<st>>, !.endTime = <<et>>,
                         !.exceptionDates = x, !.exceptionRanges = xr,
                         !.enabledEntities = en, !.disabledEntities = dis] :
        f \in {0 - 1, 1}, st \in {0, DayLen \div 2}, et \in {0, 1, DayLen - 1},
        x \in EvalDates,
        xr \in {<<>>, <<[Start |-> 0, End |-> DayLen - 1]>>},
        en \in EvalInfos, dis \in EvalInfos}

InitEval ==
    /\ appConn = "open"
    /\ appCancel = "set"
    /\ serverFrames = 0
    /\ now \in 0..((LastEvalDay + 1) * DayLen - 1)
    /\ InitProgram
    /\ PureIdle
    /\ handshake = NoCall
    /\ writePath = NoCall
    /\ idCalls = NoCall
    /\ rangeCall = NoCall
    /\ entityCall = NoCall
    /\ listenCall = NoCall
    /\ \/ \E s \in EvalScheduleBuilds, kind \in {"schedule"} :
             evalCall \in
                {[pc |-> "call", kind |-> kind, item |-> RegisteredSchedule(s, 1, 0),
                  fetch |-> fetch, spawned |-> FALSE, putBack |-> <<>>] :
                    fetch \in FetchOutcomes(s)}
       \/ \E i \in EvalIntervalBuilds, kind \in {"interval"} :
             evalCall \in
                {[pc |-> "call", kind |-> kind, item |-> RegisteredInterval(i, 1, 0),
                  fetch |-> fetch, spawned |-> FALSE, putBack |-> <<>>] :
                    fetch \in FetchOutcomes(i)}
    /\ evalCall.item.nextRunTime <= now

NextEval ==
    \/ EvaluateSchedule
    \/ EvaluateInterval

SpecEval == InitEval /\ [][NextEval]_vars

\* Shutdown: dispatch as in Spec, and Cleanup cancels the context at any moment.
NextShutdown ==
    \/ Next
    \/ MainCtxDone
    \/ Cleanup

SpecShutdown == Init /\ [][NextShutdown]_vars

\* Dispatch with a callback that panics.
NextPanic ==
    \/ Next
    \/ CallbackPanics

SpecPanic == Init /\ [][NextPanic]_vars

\* ================================================================ claims
\* entity id eid is one of the ids listener l is bound to
Bound(l, eid) == \E k \in 1..Len(l.entityIds) : l.entityIds[k] = eid

\* the callback goroutines started for listener lid on message n
CallsFor(lid, n) == {c \in 1..Len(calls) : calls[c].lid = lid /\ calls[c].n = n}

\* message n2 is a transition of a bound entity to a state other than the
\* listener's toState, received after the message that started timer i and
\* before that timer was due, and its dispatch goroutine has returned
MismatchDispatched(i, n2) ==
    LET l == listener[timers[i].lid]
        m2 == received[n2]
    IN /\ n2 \in finished
       /\ n2 > timers[i].n
       /\ Bound(l, m2.eid)
       /\ m2.new # m2.old
       /\ m2.new # l.toState
       /\ m2.at < timers[i].due

\* C1: for a listener with a delay and a toState X, once an event into X has
\* started the delay timer and a later event of a bound entity into another
\* state, received before the delay elapsed, has been dispatched, the timer
\* does not run the callback for the first event.
C1_DelayCancelledByMismatch ==
    [][\A i \in 1..Len(timers) :
          (timers[i].st = "pending" /\ timers'[i].st = "fired")
          => ~\E n2 \in 1..Len(received) : MismatchDispatched(i, n2)]_vars

\* the event callbacks of an undelayed listener, in pairs
EventCallPairs ==
    {p \in (1..Len(calls)) \X (1..Len(calls)) :
        /\ p[1] < p[2]
        /\ calls[p[1]].lid = calls[p[2]].lid
        /\ calls[p[1]].kind = "event"
        /\ calls[p[2]].kind = "event"}

\* C3: no two callback invocations of a listener with a throttle T and no
\* delay are started less than T apart.
C3_ThrottleSpacing ==
    \A p \in EventCallPairs :
        LET l == listener[calls[p[1]].lid]
        IN (l.throttle > 0 /\ l.delay = 0)
           => Abs(calls[p[2]].at - calls[p[1]].at) >= l.throttle

\* While one event only has been received: a delay timer it started is never
\* stopped, the callback is run for it at most once, by the timer and not
\* before the delay has elapsed since the event arrived, and exactly once
\* when the timer has fired.
C2_OnceAfterDelay ==
    Len(received) = 1 =>
        \A i \in 1..Len(timers) :
            LET cs == CallsFor(timers[i].lid, timers[i].n)
            IN /\ timers[i].st # "stopped"
               /\ Cardinality(cs) = (IF timers[i].st = "fired" THEN 1 ELSE 0)
               /\ \A c \in cs :
                     /\ calls[c].kind = "timer"
                     /\ calls[c].at >= received[timers[i].n].at
                                       + listener[timers[i].lid].delay

PendingTimers == {i \in 1..Len(timers) : timers[i].st = "pending"}

\* C2: a single event into toState that passes the conditions of a listener
\* with a delay D, followed by no other event, leads to exactly one
\* invocation of the callback, no sooner than D after the event.
C2_DelayedCallbackOnce ==
    /\ []C2_OnceAfterDelay
    /\ [](Len(received) <= 1) => ((PendingTimers # {}) ~> (PendingTimers = {}))

C2_Witness ==
    /\ Len(received) = 1
    /\ Len(timers) = 1
    /\ timers[1].st = "fired"
    /\ Cardinality(CallsFor(timers[1].lid, 1)) = 1
    /\ \E c \in CallsFor(timers[1].lid, 1) : calls[c].at = received[1].at + DelayD

\* C4: a state_changed message whose old and new state are equal starts no
\* callback and no timer, and the dispatch of it leaves every listener's
\* lastRan and delayTimer and every timer as they are.
C4_NoOpSuppressed ==
    /\ [](\A c \in 1..Len(calls) :
              calls[c].n # 0 => received[calls[c].n].new # received[calls[c].n].old)
    /\ [](\A i \in 1..Len(timers) :
              received[timers[i].n].new # received[timers[i].n].old)
    /\ [][\A t \in tasks :
              (received[t.n].new = received[t.n].old /\ t \notin tasks')
              => UNCHANGED <<listener, timers, calls>>]_vars

C4_Witness ==
    \E n \in finished :
        /\ received[n].new = received[n].old
        /\ entityListeners[received[n].eid] # <<>>
        /\ \E i \in 1..Len(timers) : timers[i].st = "pending"

StartupCalls(lid) == {c \in 1..Len(calls) : calls[c].kind = "startup" /\ calls[c].lid = lid}

\* C5: the RunOnStartup pass of Start invokes the callback of every listener
\* with runOnStartup exactly once, however many entity ids it is bound to,
\* and sets runOnStartupCompleted with it; a listener without runOnStartup is
\* not invoked by the pass.
C5_RunOnStartupOnce ==
    \A lid \in 1..Len(listener) :
        /\ Cardinality(StartupCalls(lid)) <= 1
        /\ listener[lid].runOnStartupCompleted <=> (StartupCalls(lid) # {})
        /\ ~listener[lid].runOnStartup => StartupCalls(lid) = {}
        /\ (startPc \in {"loop", "returned"} /\ listener[lid].runOnStartup)
              => Cardinality(StartupCalls(lid)) = 1

C5_Witness ==
    /\ startPc = "loop"
    /\ \E lid \in 1..Len(listener) :
          /\ listener[lid].runOnStartup
          /\ Len(listener[lid].entityIds) = 2
          /\ Cardinality(StartupCalls(lid)) = 1

\* C6: once a call to Close has returned, with nil or with an error, the
\* context of an App that has a cancel function is cancelled.
C6_CloseCancelsContext ==
    (appCancel = "set" /\ Len(closeRet) > 0) => ctxDone

\* C7: Close never panics, however often it is called and whether or not
\* the context is already cancelled, and on an App whose connection or cancel
\* function is nil every call of it returns nil.
C7_NilFieldsCloseReturnsNil ==
    /\ ~closePanic
    /\ (appConn = "nil" \/ appCancel = "nil")
          => \A k \in 1..Len(closeRet) : closeRet[k] = "nil"

\* Close has returned twice on an App with neither connection nor cancel
\* function
C7_Witness ==
    /\ appConn = "nil"
    /\ appCancel = "nil"
    /\ Len(closeRet) = 2

\* The catch-up loop of runIntervals has an interval of negative frequency
\* that is before the clock, in its hand or in the queue.
Trapped ==
    /\ intvRun.pc = "catchup"
    /\ \E x \in intervals \cup {intvRun.item} : x.frequency < 0 /\ x.nextRunTime < now

\* A trapped catch-up loop stays trapped: each turn takes an item of least
\* priority, which is before the clock again, so the loop has no way out.
TrappedForGood == [][Trapped => Trapped']_vars

\* C8: once the context is cancelled, the main loop of Start, the schedules
\* run loop and the intervals run loop each return in the end; so the
\* catch-up loop of runIntervals, which does not look at the context, is not
\* in a run it cannot leave.
C8_LoopsReturnAfterCancel ==
    /\ (ctxDone /\ startPc = "loop") ~> (startPc = "returned")
    /\ (ctxDone /\ Alive /\ schedRun.pc # "idle") ~> (~Alive \/ schedRun.pc = "returned")
    /\ (ctxDone /\ Alive /\ intvRun.pc # "idle")
          ~> (~Alive \/ intvRun.pc = "returned" \/ Trapped)
    /\ [](ctxDone /\ Alive => ~Trapped)

\* C9: when the reader has met a read error and the main loop has returned on
\* it, the application context is cancelled.
C9_ReadErrorCancelsContext ==
    (readerPc = "failed" /\ startPc = "returned") => ctxDone

\* C10 as claimed: whenever the main loop returns once the reader has closed
\* the channel, the messages queued in the channel have been drained.
C10_LoopDrainsClosedChannel ==
    [][(chanCloses > 0 /\ startPc = "loop" /\ startPc' = "returned")
          => elChan = <<>>]_vars

\* C10: on a read error or a full channel the reader closes the channel once
\* and returns, and nothing is sent on the channel afterwards; the main loop
\* then returns, with the channel drained unless the context was cancelled
\* first, and does not block for ever.
C10_ReaderCloseEndsLoop ==
    /\ [](chanCloses = (IF readerPc \in {"failed", "full"} THEN 1 ELSE 0))
    /\ [][(readerPc = "failed" \/ readerPc = "full")
             => (readerPc' = readerPc /\ received' = received
                   /\ (elChan' = elChan \/ (elChan # <<>> /\ elChan' = Tail(elChan))))]_vars
    /\ [][(chanCloses > 0 /\ startPc = "loop" /\ startPc' = "returned" /\ ~ctxDone)
             => elChan = <<>>]_vars
    /\ (chanCloses > 0) ~> (startPc = "returned")

C10_Witness ==
    /\ readerPc = "full"
    /\ startPc = "returned"
    /\ ~ctxDone
    /\ Len(received) = ChanCap
    /\ Cardinality(finished \cup {t.n : t \in tasks}) = ChanCap

\* C11: a panic in a callback goroutine leaves the process up: the main
\* loop, the reader and the run loops go on.
C11_CallbackPanicIsolated ==
    callbackPanicked => Alive

\* C12: before Start, every schedule passed to RegisterSchedules, a sunrise
\* or sunset one too, is in the schedules queue exactly once, with its
\* nextRunTime as priority.
C12_EveryScheduleEnqueued ==
    startPc = "idle" =>
        \A k \in 1..Len(schedPassed) :
            /\ Cardinality({x \in schedules : x.id = k}) = 1
            /\ \A x \in schedules : x.id = k => x.priority = x.nextRunTime

\* the items of a queue and the one its run loop has popped again
Held(queue, run) ==
    queue \cup (IF run.pc \in {"catchup", "sleep"} THEN {run.item} ELSE {})

\* the run time of a re-queued item is a new one
Moved(x, r) == x.id = r.id /\ x.nextRunTime # r.due

\* the ids of the items of a queue of the queue-order runs
OrderIds == 1..2

\* the item id of the queue is due at t: its nextRunTime t has arrived
QueuedDue(queue, id, t) ==
    t <= now /\ \E x \in queue : x.id = id /\ x.nextRunTime = t

\* the item id is still waiting for its evaluation at t, in the queue or in
\* the hand of the run loop
StillHeld(queue, run, id, t) ==
    \E x \in Held(queue, run) : x.id = id /\ x.nextRunTime = t

\* The intervals run loop is trapped behind an interval of negative frequency
\* while a callback is running and another interval, of positive frequency
\* and later than the trapping one, is in the queue with its nextRunTime
\* arrived.
Starved ==
    /\ Trapped
    /\ ran # {}
    /\ \E a \in intervals \cup {intvRun.item}, x \in intervals :
          /\ a.frequency < 0 /\ a.nextRunTime < now
          /\ x.frequency > 0 /\ a.nextRunTime < x.nextRunTime /\ x.nextRunTime <= now

\* A starved interval stays starved: each turn of the catch-up loop takes the
\* item of least priority, which is the trapping interval again.
StarvedForGood ==
    [][(Starved /\ Alive) =>
          /\ Starved'
          /\ \A x \in intervals :
                (x.frequency > 0 /\ x.nextRunTime <= now
                   /\ \E a \in intervals \cup {intvRun.item} :
                         a.frequency < 0 /\ a.nextRunTime < x.nextRunTime)
                => x \in intervals']_vars

\* C13: a schedule or interval callback that never returns does not stall its
\* run loop: the step that starts the callback puts the item back with its
\* next run time, the loop is never inside a callback, an item whose time has
\* come while callbacks are still running is taken from the sleep, and every
\* other item of the queue whose nextRunTime has arrived is evaluated in the
\* end, as long as the context is not cancelled and no panic has ended the
\* process; so the run loop is never kept from an item that is due.
C13_CallbackNeverStallsLoop ==
    /\ [][(ran' # ran) =>
            /\ schedRun'.pc # "incallback" /\ intvRun'.pc # "incallback"
            /\ \A r \in ran' \ ran :
                  IF r.kind = "schedule"
                  THEN \E x \in Held(schedules', schedRun') : Moved(x, r)
                  ELSE \E x \in Held(intervals', intvRun') : Moved(x, r)]_vars
    /\ (ran # {} /\ ~ctxDone /\ schedRun.pc = "sleep" /\ schedRun.item.nextRunTime <= now)
          ~> (schedRun.pc # "sleep" \/ ~Alive)
    /\ (ran # {} /\ ~ctxDone /\ intvRun.pc = "sleep" /\ intvRun.item.nextRunTime <= now)
          ~> (intvRun.pc # "sleep" \/ ~Alive)
    /\ \A id \in OrderIds : \A t \in 0..MaxTime :
          /\ (ran # {} /\ startPc = "loop" /\ QueuedDue(schedules, id, t))
                ~> (~StillHeld(schedules, schedRun, id, t) \/ ctxDone \/ ~Alive)
          /\ (ran # {} /\ startPc = "loop" /\ QueuedDue(intervals, id, t))
                ~> (~StillHeld(intervals, intvRun, id, t) \/ ctxDone \/ ~Alive)
    /\ [](Alive /\ ~ctxDone => ~Starved)

\* C14: the main loop sends a message to entity-listener dispatch when its id
\* is the id of the state_changed subscription and to event-listener dispatch
\* when it is not, and once Start has subscribed that id is the id of no
\* event-type subscription and of no request of the process.
C14_RetainedIdRoutesTraffic ==
    /\ [][(elChan # <<>> /\ elChan' = Tail(elChan)) =>
            \E t \in tasks' \ tasks :
                /\ t.n = Head(elChan)
                /\ (received[t.n].id = entityListenersId) => t.pc = "begin"
                /\ (received[t.n].id # entityListenersId) => t.pc = "event"]_vars
    /\ [](startPc \in {"startup", "loop", "returned"} =>
            /\ \A k \in 1..Len(subFrames) : subFrames[k].id # entityListenersId
            /\ \A r \in issued : r.id # entityListenersId)

\* both kinds of message were routed, with an event subscription and a
\* request made before Start and a request made after it
C14_Witness ==
    /\ subFrames # <<>>
    /\ \E r \in issued : r.id < entityListenersId
    /\ \E r \in issued : r.id > entityListenersId
    /\ \E n \in finished : received[n].id = entityListenersId
    /\ \E n \in finished : received[n].id # entityListenersId

\* the subscribe_events frames written for an event type
FramesFor(eventType) == {k \in 1..Len(subFrames) : subFrames[k].event_type = eventType}

\* the call under way has written the frame of this type and is about to
\* store its listener
Storing(eventType) == regCall.pc = "store" /\ Head(regCall.types) = eventType

\* C15: whatever RegisterEventListeners calls were made, one subscribe_events
\* frame was sent for each event type that has a listener, the one a call is
\* about to store included, and none for a type that has none.
C15_OneFramePerEventType ==
    \A eventType \in EventTypes :
        Cardinality(FramesFor(eventType)) =
            IF eventListeners[eventType] # <<>> \/ Storing(eventType) THEN 1 ELSE 0

\* two listeners name the same event type, one of them twice, and the other
\* type has a listener too
C15_Witness ==
    /\ \E eventType \in EventTypes : Len(eventListeners[eventType]) >= 3
    /\ \A eventType \in EventTypes : eventListeners[eventType] # <<>>

\* the NextTime calls made on a trigger of one kind
CallsOf(kind) == IF trigger.kind = kind THEN 1..Len(trigCalls) ELSE {}

\* C16: whatever the variant of the trigger, a NextTime that is not nil is
\* after the now it was given, so the results of calling NextTime on its own
\* result go up strictly.
C16_NextTimeStrictlyAfterNow ==
    \A k \in 1..Len(trigCalls) :
        trigCalls[k].next # <<>> => trigCalls[k].next[1] > trigCalls[k].now

\* C17: NextTime of FixedTimeTrigger(h, m) is at h:m:00 and is after now and
\* no more than a day after it.
C17_FixedTimeWrap ==
    \A k \in CallsOf("fixed") :
        LET n == trigCalls[k].now
            next == trigCalls[k].next
        IN /\ next # <<>>
           /\ HourOf(next[1]) = trigger.Hour
           /\ MinuteOf(next[1]) = trigger.Minute
           /\ SecondOf(next[1]) = 0
           /\ n < next[1] /\ next[1] <= n + SecPerDay

\* x is an instant e + k * (d1 + .. + dn) + (d1 + .. + di) of the trigger
IsFire(t, x) ==
    LET e == IF t.epoch = <<>> THEN 0 ELSE t.epoch[1]
    IN \E i \in 1..Len(t.intervals) :
          LET off == x - e - Sum(SubSeq(t.intervals, 1, i))
          IN off >= 0 /\ off % Sum(t.intervals) = 0

\* C18: NextTime of an IntervalTrigger with epoch e is, for now >= e, the
\* first instant e + k * (d1 + .. + dn) + (d1 + .. + di) after now, and for
\* now < e it is e + d1.
C18_IntervalAlignment ==
    \A k \in CallsOf("interval") :
        LET n == trigCalls[k].now
            next == trigCalls[k].next
            e == IF trigger.epoch = <<>> THEN 0 ELSE trigger.epoch[1]
        IN /\ next # <<>>
           /\ IF n < e
              THEN next[1] = e + trigger.intervals[1]
              ELSE /\ next[1] > n
                   /\ IsFire(trigger, next[1])
                   /\ \A x \in (n + 1)..(next[1] - 1) : ~IsFire(trigger, x)

\* the results of the children of the composite for the now of call k
ChildResults(k) ==
    {LeafNextTime(trigger.triggers[i], trigCalls[k].now) : i \in 1..Len(trigger.triggers)}

\* C19: NextTime of a composite is the least of the results of its children
\* that are not nil, wherever the least one and the nil ones stand, and is
\* nil only when every child gives nil.
C19_CompositeMinimum ==
    \A k \in CallsOf("composite") :
        LET next == trigCalls[k].next
            some == ChildResults(k) \ {<<>>}
        IN IF some = {} THEN next = <<>>
           ELSE /\ next \in some
                /\ \A r \in some : next[1] <= r[1]

\* a composite whose first child gave nil and whose last child gave the
\* least time, and one whose children all gave nil
C19_Witness ==
    /\ trigger.kind = "composite"
    /\ Len(trigCalls) >= 2
    /\ LET t == trigger.triggers
           n == trigCalls[1].now
       IN /\ Len(t) = 3
          /\ LeafNextTime(t[1], n) = <<>>
          /\ LeafNextTime(t[2], n) # <<>>
          /\ LeafNextTime(t[3], n) # <<>>
          /\ LeafNextTime(t[3], n)[1] < LeafNextTime(t[2], n)[1]
          /\ trigCalls[1].next = LeafNextTime(t[3], n)

\* the step is an On... call that made a trigger
MadeTrigger == built' = built /\ builder' # builder /\ builder'.last # NoTrigger

\* C20: the triggers of a DailyScheduleBuilder have different hashes; a call
\* whose trigger has a hash that is already there leaves the triggers as they
\* are and records a "duplicate trigger" error, and every Build after it
\* returns an error and no trigger.
C20_BuilderRejectsDuplicates ==
    /\ [](\A i, j \in 1..Len(builder.triggers) :
              Hash(builder.triggers[i]) = Hash(builder.triggers[j]) => i = j)
    /\ [][(MadeTrigger /\ \E i \in 1..Len(builder.triggers) :
                              Hash(builder.triggers[i]) = Hash(builder'.last)) =>
            /\ builder'.triggers = builder.triggers
            /\ builder'.errors = Append(builder.errors, "duplicate trigger")]_vars
    /\ [][(built' # built /\ \E k \in 1..Len(builder.errors) :
                              builder.errors[k] = "duplicate trigger") =>
            built'[Len(built')] = [trigger |-> <<>>, err |-> TRUE]]_vars

\* OnSunrise("1h") and OnSunrise("60m") were both called, with another
\* trigger added, and Build was called after them
C20_Witness ==
    /\ builder.errors = <<"duplicate trigger">>
    /\ Len(builder.triggers) = 2
    /\ \E i \in 1..2 : builder.triggers[i].kind = "sun" /\ builder.triggers[i].offset = SecPerHour
    /\ builder.last.kind = "sun"
    /\ built # <<>>

\* C21: the handshake returns a connection and a live context only if the
\* first frame read was auth_required and the frame read after the auth
\* message was auth_ok; the auth message is sent only after auth_required was
\* read; every other second frame fails with ErrInvalidToken; and a failed
\* handshake returns no connection and no context.
C21_HandshakeOrder ==
    /\ handshake.sent # <<>> =>
          /\ handshake.sent = <<[type |-> "auth", access_token |-> handshake.token]>>
          /\ handshake.read # <<>>
          /\ handshake.read[1] = [json |-> TRUE, type |-> "auth_required"]
    /\ handshake.pc = "returned" =>
          /\ handshake.ret.err = "nil" =>
                /\ handshake.ret.conn = "open" /\ handshake.ret.ctx = "live"
                /\ handshake.sent # <<>>
                /\ handshake.read = <<[json |-> TRUE, type |-> "auth_required"],
                                      [json |-> TRUE, type |-> "auth_ok"]>>
          /\ handshake.ret.err # "nil" =>
                handshake.ret.conn = "nil" /\ handshake.ret.ctx = "nil"
          /\ (/\ Len(handshake.read) = 2
              /\ handshake.read[2].type # "eof"
              /\ handshake.read[2] # [json |-> TRUE, type |-> "auth_ok"]) =>
                handshake.ret.err = "ErrInvalidToken"

\* the goroutines inside the encode-and-send of WriteMessage
InsideWriteJSON == {w \in Writers : writePath.pc[w] \in {"json", "flush"}}

\* C22: at most one goroutine at a time is inside the JSON encode-and-send of
\* WriteMessage, and the frames of concurrent writers are not interleaved on
\* the wire: the part after the head of a frame is the tail of that frame.
C22_WritesSerialized ==
    /\ Cardinality(InsideWriteJSON) <= 1
    /\ \A k \in 1..Len(writePath.wire) :
          LET f == writePath.wire[k]
          IN IF f.part = "head"
             THEN k < Len(writePath.wire) =>
                     writePath.wire[k + 1] = [f EXCEPT !.part = "tail"]
             ELSE k > 1 /\ writePath.wire[k - 1] = [f EXCEPT !.part = "head"]

\* one writer is in the middle of its frame, after a whole frame of another
\* writer, while the third waits for the mutex
C22_Witness ==
    /\ \E w \in Writers : writePath.pc[w] = "flush"
    /\ \E w \in Writers : writePath.pc[w] = "lock"
    /\ Len(writePath.wire) = 3
    /\ writePath.wire[1].writer # writePath.wire[3].writer
    /\ \A w \in Writers : \E k \in 1..3 :
          writePath.pc[w] = "lock" \/ writePath.wire[k].writer = w

\* C23: the first NextId call of a process returns 1, and however the
\* callers interleave the values returned are 1, 2, 3, ..., each once.
C23_NextIdCountsUp ==
    \A k \in 1..Len(idCalls.returned) : idCalls.returned[k].id = k

\* three goroutines have drawn ids in turns, the last draw by the first one
C23_Witness ==
    /\ Len(idCalls.returned) >= 4
    /\ {idCalls.returned[k].caller : k \in 1..3} = Callers
    /\ idCalls.returned[4].caller = idCalls.returned[1].caller

\* the minute of the day n is in [st, en), a window that crosses midnight
\* when en < st
InWindow(st, en, n) ==
    IF en < st THEN n >= st \/ n < en ELSE st <= n /\ n < en

\* C24: CheckWithinTimeRange passes, with both times set, iff now is in
\* [start, end), across midnight when end < start; with only start, iff
\* start <= now; with only end, iff now < end; with neither, always.
C24_TimeRangeReference ==
    rangeCall.pc = "returned" =>
        LET st == rangeCall.startTime
            en == rangeCall.endTime
            n == rangeCall.now % DayLen
        IN ~rangeCall.fail <=>
              IF st # <<>> /\ en # <<>> THEN InWindow(st[1], en[1], n)
              ELSE IF st # <<>> THEN st[1] <= n
              ELSE IF en # <<>> THEN n < en[1]
              ELSE TRUE

\* the listener objects in the listener map
Listed == UNION {{listener[entityListeners[e][k]] : k \in 1..Len(entityListeners[e])} : e \in Entities}

\* C25: every entity listener in the listener map has no delay or a toState,
\* and a call of RegisterEntityListeners that fails with ErrInvalidArgs adds
\* nothing to the map.
C25_DelayNeedsToState ==
    /\ [](\A l \in Listed : l.delay = 0 \/ l.toState # "")
    /\ [][(registerPanics' > registerPanics) => UNCHANGED <<listener, entityListeners>>]_vars

\* a registration was rejected, and the application was started without it
C25_Witness ==
    /\ registerPanics > 0
    /\ Listed = {}
    /\ startPc # "idle"

\* C26: every interval RegisterIntervals has enqueued has a strictly positive
\* frequency, and no call of RegisterIntervals runs forever.
C26_IntervalsPositive ==
    /\ \A x \in intervals : x.frequency > 0
    /\ ~registerHung

\* the dispatch task t evaluates conditions, starts or stops a timer, or
\* updates lastRan in this step
DispatchSteps(t) == t.pc \in {"check", "act", "store", "stamp"} /\ t \notin tasks'

\* an entity-listener dispatch task that still has listeners to go through,
\* for a message of the same entity that the reader received before the
\* message of t
EarlierPending(t) ==
    \E u \in tasks :
        /\ \/ u.pc \in {"check", "act", "store", "stamp"}
           \/ u.pc = "begin" /\ ~SameState(received[u.n])
                             /\ entityListeners[received[u.n].eid] # <<>>
        /\ u.n < t.n
        /\ received[u.n].eid = received[t.n].eid

\* C27: a state_changed message is processed by entity-listener dispatch only
\* once every message of the same entity received before it has been, for
\* every scheduling of the dispatch tasks.
C27_ReceiveOrder ==
    [][(\A t \in tasks : DispatchSteps(t) => ~EarlierPending(t))]_vars

\* The fields of its listener the next step of dispatch task t reads: at
\* "check", l.delayTimer when the toState condition is the first to fail, and
\* l.lastRan when the throttle condition is reached.
ReadsNext(t) ==
    IF t.pc # "check" THEN {}
    ELSE LET msg == received[t.n]
             l == listener[ListenerOf(t)]
         IN IF CheckWithinTimeRange(l.betweenStart, l.betweenEnd, now) THEN {}
            ELSE IF CheckStatesMatch(l.fromState, msg.old) THEN {}
            ELSE IF CheckStatesMatch(l.toState, msg.new) THEN {"delayTimer"}
            ELSE {"lastRan"}

\* The field of its listener the next step of dispatch task t writes: at
\* "store" l.delayTimer, at "stamp" l.lastRan.
WritesNext(t) ==
    IF t.pc = "store" THEN {"delayTimer"}
    ELSE IF t.pc = "stamp" THEN {"lastRan"}
    ELSE {}

\* the function of timer i is due to run, or is running and has not yet
\* written l.lastRan
TimerDue(i) ==
    \/ timers[i].st = "pending" /\ now >= timers[i].due
    \/ timers[i].st = "fired" /\ ~timers[i].stamped

\* two dispatch tasks are about to access one field of one listener, one of
\* them writing it
TasksConflict ==
    \E t \in tasks, u \in tasks :
        /\ t # u
        /\ t.pc \in {"check", "store", "stamp"}
        /\ u.pc \in {"check", "store", "stamp"}
        /\ ListenerOf(t) = ListenerOf(u)
        /\ WritesNext(t) \cap (ReadsNext(u) \cup WritesNext(u)) # {}

\* a timer function is about to write lastRan of a listener while a dispatch
\* task is about to read or write it
TimerConflict ==
    \E i \in 1..Len(timers), t \in tasks :
        /\ TimerDue(i)
        /\ t.pc \in {"check", "store", "stamp"}
        /\ ListenerOf(t) = timers[i].lid
        /\ "lastRan" \in (ReadsNext(t) \cup WritesNext(t))

\* C28: no two tasks (two dispatch tasks, or a dispatch task and a
\* delay-timer function) access the lastRan or the delayTimer of one listener
\* concurrently.
C28_ListenerAccessSerialized == ~TasksConflict /\ ~TimerConflict

\* runSchedules calls maybeRunCallback on the schedule it holds in this step
SchedulesEvaluate ==
    /\ schedRun' # schedRun
    /\ \/ schedRun.pc = "catchup" /\ schedRun.item.nextRunTime < now
       \/ schedRun.pc = "sleep" /\ schedRun'.pc # "returned"

\* runIntervals calls maybeRunCallback on the interval it holds in this step
IntervalsEvaluate ==
    /\ intvRun' # intvRun
    /\ \/ intvRun.pc = "catchup" /\ intvRun.item.nextRunTime < now
       \/ intvRun.pc = "sleep" /\ intvRun'.pc # "returned"

\* C29: whenever a run loop evaluates an item, no item of a strictly smaller
\* priority is in its queue.
C29_EvaluatedInPriorityOrder ==
    [][/\ SchedulesEvaluate => \A y \in schedules : schedRun.item.priority <= y.priority
       /\ IntervalsEvaluate => \A y \in intervals : intvRun.item.priority <= y.priority]_vars

\* two items of one queue with different priorities were both evaluated and
\* run, the earlier one first
C29_Witness ==
    \E a \in ran, b \in ran :
        /\ a.kind = b.kind
        /\ a.id # b.id
        /\ a.due < b.due
        /\ a.at < b.at

\* the items of the schedule (interval) held, after the step: in the queue, or
\* popped again at once
SchedulesPutBack ==
    {x \in schedules' : x.id = schedRun.item.id}
    \cup (IF schedRun'.item.id = schedRun.item.id THEN {schedRun'.item} ELSE {})

IntervalsPutBack ==
    {x \in intervals' : x.id = intvRun.item.id}
    \cup (IF intvRun'.item.id = intvRun.item.id THEN {intvRun'.item} ELSE {})

\* the intervals there are: in the queue, or held by the run loop
IntervalsLive ==
    intervals \cup (IF intvRun.pc \in {"catchup", "sleep"} THEN {intvRun.item} ELSE {})

\* C30: on re-queue a fixed-time schedule is put back one day after its
\* previous nextRunTime and an interval one frequency after it, with the new
\* nextRunTime as priority, whether or not the callback was run; so the
\* nextRunTime of an interval is its start time plus a whole multiple of its
\* frequency.
C30_RequeueAdvances ==
    /\ [][/\ SchedulesEvaluate =>
                /\ SchedulesPutBack # {}
                /\ \A x \in SchedulesPutBack :
                      /\ x.nextRunTime = schedRun.item.nextRunTime + DayLen
                      /\ x.priority = x.nextRunTime
          /\ IntervalsEvaluate =>
                /\ IntervalsPutBack # {}
                /\ \A x \in IntervalsPutBack :
                      /\ x.nextRunTime = intvRun.item.nextRunTime + intvRun.item.frequency
                      /\ x.priority = x.nextRunTime]_vars
    /\ [](\A x \in IntervalsLive :
            (x.nextRunTime - x.startTime[1]) %
                (IF x.frequency < 0 THEN 0 - x.frequency ELSE x.frequency) = 0)

\* a schedule and an interval were put back after their callback was run,
\* and another was put back though a condition held its callback back
C30_Witness ==
    \/ /\ \E r \in ran : r.kind = "schedule"
       /\ \E x \in schedules :
             /\ x.nextRunTime >= DayLen
             /\ ~\E r \in ran : r.kind = "schedule" /\ r.id = x.id
    \/ /\ \E r \in ran : r.kind = "interval"
       /\ \E x \in intervals :
             /\ x.frequency > 0
             /\ x.nextRunTime > MaxTime
             /\ \E r \in ran : r.kind = "interval" /\ r.id = x.id /\ r.at > r.due
             /\ \E t \in x.startTime[1]..MaxTime :
                   /\ (t - x.startTime[1]) % x.frequency = 0
                   /\ ~\E r \in ran : r.kind = "interval" /\ r.id = x.id /\ r.due = t

\* C31: each time a run loop re-queues an item, the new nextRunTime is
\* strictly later than the nextRunTime the item was just evaluated at.
C31_RequeueStrictlyLater ==
    [][/\ SchedulesEvaluate =>
            \A x \in SchedulesPutBack : x.nextRunTime > schedRun.item.nextRunTime
       /\ IntervalsEvaluate =>
            \A x \in IntervalsPutBack : x.nextRunTime > intvRun.item.nextRunTime]_vars

\* the intervals this step enqueues
IntervalsEnqueued == intervals' \ intervals

\* C32: an interval RegisterIntervals enqueues has a nextRunTime strictly
\* later than the time of registration, equal to its parsed startTime plus a
\* whole number (>= 0) of frequency steps.
C32_FirstRunInFuture ==
    [][(startPc = "idle" =>
          \A x \in IntervalsEnqueued :
             /\ x.nextRunTime > now
             /\ \E k \in 0..(2 * DayLen) :
                   x.nextRunTime = ParseTime(x.startTime, now) + k * x.frequency)]_vars

\* entity checks, read off the documentation of EnabledWhen and DisabledWhen:
\* every enabled-when entity has its state (or its fetch failed and the entry
\* has runOnError), no disabled-when entity has its state (same for a failure)
EnabledWhenPasses(answers, infos) ==
    \A k \in 1..Len(infos) :
        \/ answers[k] = infos[k].State
        \/ answers[k] = "ERR" /\ infos[k].RunOnError

DisabledWhenPasses(answers, infos) ==
    \A k \in 1..Len(infos) :
        \/ answers[k] # "ERR" /\ answers[k] # infos[k].State
        \/ answers[k] = "ERR" /\ infos[k].RunOnError

\* no date of the list is the day of t
NoDateToday(dates, t) == \A k \in 1..Len(dates) : dates[k] \div DayLen # t \div DayLen

\* every predicate that applies to schedule s passes at t, when the state
\* fetches give fetch
SchedulePasses(s, fetch, t) ==
    /\ NoDateToday(s.exceptionDates, t)
    /\ s.allowlistDates = <<>> \/ ~NoDateToday(s.allowlistDates, t)
    /\ EnabledWhenPasses(fetch.en, s.enabledEntities)
    /\ DisabledWhenPasses(fetch.dis, s.disabledEntities)

\* every predicate that applies to interval i passes at t: the start time is
\* "00:00" or not after t, the end time is "00:00" or not before t, t is on
\* no exception date and strictly inside no exception range
IntervalPasses(i, fetch, t) ==
    /\ i.startTime = <<0>> \/ (t - (t % DayLen)) + i.startTime[1] <= t
    /\ i.endTime = <<0>> \/ (t - (t % DayLen)) + i.endTime[1] >= t
    /\ NoDateToday(i.exceptionDates, t)
    /\ \A k \in 1..Len(i.exceptionRanges) :
          ~(i.exceptionRanges[k].Start < t /\ t < i.exceptionRanges[k].End)
    /\ EnabledWhenPasses(fetch.en, i.enabledEntities)
    /\ DisabledWhenPasses(fetch.dis, i.disabledEntities)

\* C33: when a run loop evaluates an item, the callback is spawned if and
\* only if every applicable predicate passes at that moment, with the state
\* fetches the step made: for a schedule exception dates, allow-list dates,
\* enabled-when and disabled-when; for an interval start time, end time,
\* exception dates, exception ranges, enabled-when and disabled-when.  The
\* item is re-queued in both cases.
C33_SpawnedIffPredicatesPass ==
    evalCall.pc = "returned" =>
        /\ evalCall.kind = "schedule" =>
              (evalCall.spawned <=> SchedulePasses(evalCall.item, evalCall.fetch, now))
        /\ evalCall.kind = "interval" =>
              (evalCall.spawned <=> IntervalPasses(evalCall.item, evalCall.fetch, now))
        /\ Len(evalCall.putBack) = 1
        /\ evalCall.putBack[1].id = evalCall.item.id
        /\ evalCall.putBack[1].nextRunTime # evalCall.item.nextRunTime

\* an interval with a start time, an end time, an exception date, an
\* exception range, an enabled-when and a disabled-when entity was evaluated
\* on the second day before its start time: every predicate but the start
\* time passed, the callback was not spawned and the interval was put back
C33_Witness ==
    /\ evalCall.pc = "returned"
    /\ evalCall.kind = "interval"
    /\ evalCall.item.startTime # <<0>>
    /\ evalCall.item.endTime # <<0>>
    /\ evalCall.item.exceptionDates # <<>>
    /\ evalCall.item.exceptionRanges # <<>>
    /\ evalCall.item.enabledEntities # <<>>
    /\ evalCall.item.disabledEntities # <<>>
    /\ IntervalPasses([evalCall.item EXCEPT !.startTime = <<0>>], evalCall.fetch, now)
    /\ ~evalCall.spawned
    /\ evalCall.putBack # <<>>

\* C34: CheckEnabledEntity passes iff for every entry the fetch succeeds with
\* the required state, or fails with runOnError set; CheckDisabledEntity
\* passes iff for every entry the fetch succeeds with another state, or fails
\* with runOnError set.  An empty list passes.
C34_EntityChecksReference ==
    entityCall.pc = "returned" =>
        LET en == entityCall.fetch.en
            dis == entityCall.fetch.dis
            infos == entityCall.infos
        IN /\ ~entityCall.enabledFail <=>
                \A k \in 1..Len(infos) :
                    \/ en[k] # "ERR" /\ en[k] = infos[k].State
                    \/ en[k] = "ERR" /\ infos[k].RunOnError
           /\ ~entityCall.disabledFail <=>
                \A k \in 1..Len(infos) :
                    \/ dis[k] # "ERR" /\ dis[k] # infos[k].State
                    \/ dis[k] = "ERR" /\ infos[k].RunOnError

\* a call with two entries whose first fetch failed with runOnError set and
\* whose second entry decided: the enabled check failed, the disabled passed
C34_Witness ==
    /\ entityCall.pc = "returned"
    /\ Len(entityCall.infos) = 2
    /\ entityCall.fetch.en[1] = "ERR"
    /\ entityCall.fetch.dis[1] = "ERR"
    /\ entityCall.infos[1].RunOnError
    /\ entityCall.enabledFail
    /\ ~entityCall.disabledFail

\* the callback of the listener of dispatch task t was invoked less than its
\* throttle ago
InvokedWithinThrottle(t) ==
    \E c \in 1..Len(calls) :
        /\ calls[c].lid = ListenerOf(t)
        /\ now - calls[c].at < listener[ListenerOf(t)].throttle

\* C35: for a listener with a throttle T and a delay D the throttle is checked
\* before the delay timer is scheduled: a dispatch task that evaluates the
\* conditions less than T after the last callback invocation of the listener
\* does not go on to start a delay timer.
C35_ThrottleBeforeDelay ==
    [][(\A t \in tasks :
          (/\ t.pc = "check"
           /\ listener[ListenerOf(t)].throttle > 0
           /\ listener[ListenerOf(t)].delay # 0
           /\ InvokedWithinThrottle(t))
          => /\ ~\E u \in tasks' : u.n = t.n /\ u.idx = t.idx /\ u.pc = "act"
             /\ \A j \in 1..Len(timers') : timers'[j].n = t.n => j <= Len(timers))]_vars

\* the timer of a listener with throttle and delay has fired, and an event
\* that arrived after it, matching toState, was dispatched without a timer
C35_Witness ==
    \E c \in 1..Len(calls), n2 \in finished :
        LET l == listener[calls[c].lid]
        IN /\ calls[c].kind = "timer"
           /\ l.throttle > 0
           /\ l.delay # 0
           /\ received[n2].at >= calls[c].at
           /\ Bound(l, received[n2].eid)
           /\ received[n2].new = l.toState
           /\ received[n2].old # received[n2].new
           /\ ~\E j \in 1..Len(timers) : timers[j].n = n2

\* C36: cancelling the context stops no delay timer, and once the context is
\* cancelled no timer function invokes the user callback.
C36_TimerObservesCancel ==
    [][/\ (ctxDone' /\ ~ctxDone) => timers' = timers
       /\ (ctxDone /\ Len(calls') > Len(calls)) => calls'[Len(calls')].kind # "timer"]_vars

\* the delay timers of listener lid that were started and have neither fired
\* nor been stopped
PendingOf(lid) == {i \in 1..Len(timers) : timers[i].lid = lid /\ timers[i].st = "pending"}

\* C37: a delayed listener has at most one pending delay timer at any time,
\* the one recorded in its delayTimer.
C37_OnePendingTimer ==
    \A lid \in 1..Len(listener) :
        /\ Cardinality(PendingOf(lid)) <= 1
        /\ \A i \in PendingOf(lid) : listener[lid].delayTimer = i

\* how many times the item numbered id is accounted for: in the queue, and
\* held by the run loop between pop and re-queue
Accounted(queue, run, id) ==
    Cardinality({x \in queue : x.id = id})
    + (IF run.pc \in {"catchup", "sleep"} /\ run.item.id = id THEN 1 ELSE 0)

\* the numbers of the items enqueued before Start
EnqueuedIds(queue, run) ==
    {x.id : x \in queue} \cup (IF run.pc \in {"catchup", "sleep"} THEN {run.item.id} ELSE {})

\* C38: while the context is not cancelled every schedule and interval
\* enqueued before Start is accounted for exactly once, in its queue or held
\* by its run loop, and a run loop never pops from an empty queue.
C38_ItemsConserved ==
    /\ [][(~ctxDone' =>
             /\ \A id \in EnqueuedIds(schedules, schedRun) :
                   Accounted(schedules, schedRun, id)' = 1
             /\ \A id \in EnqueuedIds(intervals, intvRun) :
                   Accounted(intervals, intvRun, id)' = 1)]_vars
    /\ [](~ctxDone => /\ \A id \in EnqueuedIds(schedules, schedRun) :
                            Accounted(schedules, schedRun, id) = 1
                      /\ \A id \in EnqueuedIds(intervals, intvRun) :
                            Accounted(intervals, intvRun, id) = 1)
    /\ [](schedRun.pc # "blocked" /\ intvRun.pc # "blocked")

\* both items of a queue were evaluated and put back, one of them twice, and
\* the run loop holds one of them again
C38_Witness ==
    /\ ~ctxDone
    /\ intvRun.pc = "sleep"
    /\ Cardinality(intervals) = 1
    /\ \E a \in ran, b \in ran, c \in ran :
          /\ a.kind = "interval" /\ b.kind = "interval" /\ c.kind = "interval"
          /\ a.id # b.id
          /\ a.id = c.id /\ a.due # c.due

\* C39: when the fetch of the entity's state fails during the startup pass,
\* the callback is not invoked for that fetch.
C39_StartupSkipsOnFetchError ==
    \A c \in 1..Len(calls) : calls[c].kind = "startup" => ~calls[c].err

\* C40: a frame that cannot be decoded is skipped by the reader: the channel
\* stays open with its contents and the reader keeps running; the messages
\* pushed to the channel are, in arrival order and once each, the decodable
\* frames read so far, a frame with "success": false among them with
\* Success = FALSE (the frame at which a full channel stopped the reader is
\* the only one left out).
Decodable(raw) == raw.valid

ForwardedOf(frames) ==
    LET kept == SelectSeq(frames, Decodable)
    IN [k \in 1..Len(kept) |->
          [Id |-> kept[k].id, Type |-> kept[k].type,
           Success |-> kept[k].success # "false", Raw |-> kept[k]]]

Handled(lc) == IF lc.pc = "full" THEN lc.pos - 1 ELSE lc.pos

C40_UndecodableSkipped ==
    /\ [](listenCall.pc # "none" =>
            listenCall.got \o listenCall.c =
                ForwardedOf(SubSeq(listenCall.frames, 1, Handled(listenCall))))
    /\ [][(/\ listenCall.pc = "running"
           /\ listenCall'.pos = listenCall.pos + 1
           /\ ~Decodable(listenCall.frames[listenCall.pos + 1]))
          => /\ listenCall'.pc = "running"
             /\ listenCall'.closed = 0
             /\ listenCall'.c = listenCall.c
             /\ listenCall'.got = listenCall.got]_vars

C40_Witness ==
    /\ listenCall.pc = "running"
    /\ listenCall.pos = 3
    /\ ~Decodable(listenCall.frames[1])
    /\ listenCall.frames[2].success = "false"
    /\ listenCall.closed = 0
    /\ Len(listenCall.got \o listenCall.c) = 2
    /\ ~(listenCall.got \o listenCall.c)[1].Success

====
